---- MODULE Spec2Model ----
(***************************************************************************)
(* AyurSutra server (src/server/server.js): the Express request handlers   *)
(* over the four Mongoose collections User, Progress, Notification and     *)
(* Session.  A request is a process that runs its handler one store call   *)
(* (one `await`) at a time; the code between two awaits runs atomically,   *)
(* as on Node's single thread, and requests interleave at the awaits.      *)
(* Every store call may throw (the store is unreachable); the handler's    *)
(* catch block then produces the response.                                 *)
(***************************************************************************)
EXTENDS Integers, Sequences, FiniteSets, TLC

\* ------------------------------------------------------------------ bounds
MaxProcs == 2
MaxSignups == 2
MaxCreates == 1
MaxFeedbacks == 2
MaxMe == 1
MaxFailures == 1
MaxTicks == 1
MaxLogins == 2
MaxAttempts == 7
MaxProfiles == 2
MaxPasswords == 1
MaxChanges == 2
MaxCalls == 2
MaxResets == 1
MaxGateCalls == 2
MaxClientCalls == 4
MaxReloads == 1
MaxFetches == 2

\* ------------------------------------------------------- program constants
DefaultTotalSessions == 21
TokenDays == 7
RememberDays == 30
BcryptRounds == 12
AuthLimiterMax == 5

VARIABLES
  User,          \* collection of accounts; a document's _id is its index
  Progress,      \* collection of progress records, in insertion order
  Notification,  \* collection of notifications
  Session,       \* collection of therapy sessions; _id is the index
  req,           \* per request slot: the handler's position and locals
  issued,        \* tokens sent in responses so far
  now,           \* the clock, in days
  count,         \* requests started and store failures injected, per kind
  obs,           \* per request slot: what the store held when it was admitted
  limiter,       \* authLimiter's store: per origin, the hits of the window
  cred,          \* per account: the password its holder chose last
  client         \* the browser: Client Session Cache, App state, its flows

vars == <<User, Progress, Notification, Session, req, issued, now, count, obs,
          limiter, cred, client>>

Procs == 1..MaxProcs

\* ------------------------------------------------------------ pure helpers
RECURSIVE Gcd(_, _)
Gcd(a, b) == IF b = 0 THEN a ELSE Gcd(b, a % b)

\* A JavaScript number that need not be an integer, as a reduced fraction.
Rat(n, d) == LET g == Gcd(n, d) IN <<n \div g, d \div g>>

RatLeq(x, y) == x[1] * y[2] <= y[1] * x[2]

\* Math.min on two numbers
MathMin(x, y) == IF RatLeq(x, y) THEN x ELSE y

\* String.prototype.toLowerCase on the letters the inputs use
LowerChar(c) ==
  CASE c = "A" -> "a"
    [] c = "B" -> "b"
    [] c = "X" -> "x"
    [] OTHER -> c

toLowerCase(s) == [i \in 1..Len(s) |-> LowerChar(s[i])]

RECURSIVE trimStart(_)
trimStart(s) ==
  IF s # <<>> /\ Head(s) = " " THEN trimStart(Tail(s)) ELSE s

RECURSIVE trimEnd(_)
trimEnd(s) ==
  IF s # <<>> /\ s[Len(s)] = " " THEN trimEnd(SubSeq(s, 1, Len(s) - 1)) ELSE s

\* String.prototype.trim
trim(s) == trimEnd(trimStart(s))

\* /^\w+([.-]?\w+)*@\w+([.-]?\w+)*(\.\w{2,3})+$/ on the inputs used here: the
\* inputs are a local part, "@", a domain; white space anywhere fails.
IsWord(c) == c \in {"a", "b", "x", "A", "B", "X"}

emailRegexTest(s) ==
  /\ Len(s) >= 3
  /\ \E k \in 2..(Len(s) - 1) :
       /\ s[k] = "@"
       /\ \A i \in 1..Len(s) : i # k => IsWord(s[i])

\* The indexes of the documents of a collection that match { field: value }
Matching(coll, field, value) == {i \in 1..Len(coll) : coll[i][field] = value}

\* Model.findOne({ field: value }): the first matching document in natural
\* order, 0 for null
FindOne(coll, field, value) ==
  LET m == Matching(coll, field, value) IN
  IF m = {} THEN 0 ELSE CHOOSE i \in m : \A j \in m : i <= j

\* ---------------------------------------------------------------- inputs
EmailInputs ==
  { <<"a", "@", "x">>, <<"A", "@", "X">>, <<"b", "@", "x">>, <<"a", " ", "@", "x">> }

PasswordInputs == {"secret1"}

UserTypes == {"patient", "practitioner"}

\* Math.floor(Math.random() * 20): the two ends of its range
Random20 == {0, 19}

\* the three draws of Math.floor(Math.random() * 3) for wellness, energy, sleep
ScoreDraws == { <<2, 0, 1>> }

\* every value of Math.floor(Math.random() * 20), and of the three draws
Random20All == 0..19
ScoreDrawsAll == (0..2) \X (0..2) \X (0..2)

\* feedback bodies {wellness, energy, sleep}
FeedbackInputs == { [wellness |-> 9, energy |-> 8, sleep |-> 9],
                    [wellness |-> 6, energy |-> 7, sleep |-> 5] }

\* req.params.id: a well-formed ObjectId that names no document, and a
\* string that is no ObjectId (Mongoose fails to cast it and the query throws)
AbsentId == 0
MalformedId == -1

NameInputs == {"Nasya"}

\* passwords tried at login and change-password: the one of signup, another
\* of valid length, and one too short
TryPasswords == {"secret1", "secret2", "abc"}

\* e-mails tried at login: the patient's in another letter case, and one
\* that only a practitioner of Cast may have
LoginEmails == { <<"A", "@", "x">>, <<"b", "@", "x">> }

\* the new passwords of change-password
NewPasswords == {"secret2", "abc"}

\* the new passwords of change-password, the one of signup among them
NewPasswordsAll == {"secret1", "secret2", "abc"}

\* ------------------------------------------------------------- documents
NoToken == [userId |-> 0, email |-> <<>>, userType |-> "", iat |-> 0, exp |-> 0,
            sig |-> "none"]

\* A PUT /api/auth/profile body: the keys it has and their values
NoPatch == [fields |-> {}, password |-> "", email |-> <<>>, userType |-> "",
            isActive |-> TRUE, createdAt |-> 0]

\* PUT /api/auth/profile bodies: one that deactivates the account, one that
\* names the password and the e-mail, one that changes the account type
PatchInputs ==
  { [NoPatch EXCEPT !.fields = {"isActive"}, !.isActive = FALSE],
    [NoPatch EXCEPT !.fields = {"password", "email"}, !.password = "secret2",
                    !.email = <<"b", "@", "x">>],
    [NoPatch EXCEPT !.fields = {"userType"}, !.userType = "practitioner"] }

NoBody == [email |-> <<>>, password |-> "", userType |-> "", id |-> 0,
           name |-> "", wellness |-> 0, energy |-> 0, sleep |-> 0,
           rememberMe |-> FALSE, currentPassword |-> "", newPassword |-> "",
           patch |-> NoPatch, practitionerId |-> 0]

NoLocal == [user |-> 0, progress |-> 0, completedSessions |-> 0,
            overallProgress |-> <<0, 1>>, userType |-> "", token |-> NoToken,
            doc |-> <<>>, returned |-> {}]

NoRes == [status |-> 0, message |-> "", user |-> 0, token |-> NoToken,
          account |-> <<>>, returned |-> {}]

\* ip is the origin of the request; caught is the store call whose failure
\* was caught last
Idle == [kind |-> "none", pc |-> "idle", token |-> NoToken, body |-> NoBody,
         user |-> 0, local |-> NoLocal, res |-> NoRes, threw |-> FALSE,
         ip |-> "", caught |-> ""]

\* The client origins (req.ip)
Origins == {"ip1", "ip2"}

LocalOrigin == "ip1"

NoObs == [session |-> <<>>, progress |-> <<>>, wellnessMetrics |-> <<>>]

NoFeedback == <<>>

\* userSchema defaults for profile.wellnessMetrics
DefaultWellnessMetrics ==
  [sleepQuality |-> 0, energyLevel |-> 0, overallWellness |-> 0]

\* bcrypt.hash(password, salt): a digest that is not the plaintext
bcryptHash(password, rounds) == <<"bcrypt", rounds, password>>

\* bcrypt.compare
comparePassword(password, digest) ==
  /\ Len(digest) = 3
  /\ digest[1] = "bcrypt"
  /\ digest[3] = password

\* ------------------------------------------------------ the browser's state
\* null for an account object
NoAccount == [id |-> 0, doc |-> <<>>]

\* What the flows of the client have sent: the Authorization header of the
\* call each one awaits
NoSent == [init |-> NoToken, boot |-> NoToken, op |-> NoToken,
           profile |-> NoToken]

\* A page that has not been loaded, with an empty localStorage.
\*   token, user: AuthService's this.token and this.user
\*   storedToken, storedUser: localStorage ayursutra_token, ayursutra_user
\*   isAuthenticated, appUser, showLanding, isInitializing: App's state
\*   init: initializeAuth's position; boot: the position of the fetchUserData
\*     of useAppData's effect; op: the position of the operation the user started
\*   notifications, therapySessions: useAppData's copies
\*   calls: the fetch calls made since the page was loaded
\*   checked, valid, checkedToken: isTokenValid ran in the last step of the
\*     client, what it returned, and the token it looked at
\*   mutated, fetched, fetchOk: in the operation under way, the mutating call
\*     succeeded, a fetch was sent after it, every such fetch succeeded
InitClient ==
  [token |-> NoToken, user |-> NoAccount,
   storedToken |-> NoToken, storedUser |-> NoAccount,
   isAuthenticated |-> FALSE, appUser |-> NoAccount, showLanding |-> TRUE,
   isInitializing |-> TRUE,
   init |-> "unmounted", boot |-> "idle", op |-> "idle", opKind |-> "none",
   opArg |-> 0, sent |-> NoSent,
   notifications |-> {}, therapySessions |-> {},
   calls |-> 0, reloads |-> 0,
   checked |-> FALSE, valid |-> FALSE, checkedToken |-> NoToken,
   mutated |-> FALSE, fetched |-> FALSE, fetchOk |-> TRUE,
   pending |-> {}, issuedN |-> 0, shown |-> 0, profile |-> "idle",
   lastFailure |-> 0, failFlip |-> FALSE]

Init ==
  /\ User = <<>>
  /\ Progress = <<>>
  /\ Notification = <<>>
  /\ Session = <<>>
  /\ req = [p \in Procs |-> Idle]
  /\ issued = {}
  /\ now = 0
  /\ count = [signup |-> 0, create |-> 0, feedback |-> 0, me |-> 0,
              failure |-> 0, tick |-> 0, login |-> 0, profile |-> 0,
              password |-> 0, call |-> 0, reset |-> 0]
  /\ obs = [p \in Procs |-> NoObs]
  /\ limiter = [o \in Origins |-> [hits |-> 0, passed |-> 0]]
  /\ cred = <<>>
  /\ client = InitClient

\* ------------------------------------------------------- request plumbing
\* A slot holds a request from its arrival until the next request takes the
\* slot; with pc = "done" it shows the response that was sent.
InFlight(p) == req[p].pc \notin {"idle", "done"}

\* A request takes the lowest slot that is not in flight (slots are
\* interchangeable).
FreeSlot(p) ==
  /\ ~InFlight(p)
  /\ \A q \in Procs : q < p => InFlight(q)

Respond(p, status, message) ==
  [req EXCEPT ![p].pc = "done",
              ![p].res = [NoRes EXCEPT !.status = status, !.message = message]]

\* Time passes: a day, or a token's lifetime
Tick ==
  /\ count.tick < MaxTicks
  /\ \E d \in {1, TokenDays} : now' = now + d
  /\ count' = [count EXCEPT !.tick = @ + 1]
  /\ UNCHANGED <<client, User, Progress, Notification, Session, req, issued, obs, limiter, cred>>

\* The store calls of createInitialUserData
ObPcs == {"ob_progress", "ob_welcome", "ob_sessions", "ob_practitioner"}

\* The status a handler's catch block answers with, by the store call awaited
CatchStatus(pc) == IF pc = "auth" THEN 403 ELSE 500

\* The message a handler's catch block answers with
CatchMessage(pc) ==
  CASE pc = "auth" -> "Invalid or expired token"
    [] pc \in {"su_find", "su_save", "su_login", "lg_find", "lg_save"} ->
         "Internal server error. Please try again later."
    [] pc \in {"fb_update", "fb_find", "fb_save", "fb_user"} ->
         "Error updating session feedback"
    [] pc \in {"cr_save", "cr_notify"} -> "Error creating session"
    [] pc \in {"db_find", "db_save", "db_notifs", "db_sessions", "db_user"} ->
         "Error fetching dashboard data"
    [] pc \in {"pg_find", "pg_save"} -> "Error fetching progress"
    [] pc = "nl_find" -> "Error fetching notifications"
    [] pc = "sl_find" -> "Error fetching sessions"
    [] pc = "nr_update" -> "Error updating notification"
    [] OTHER -> "Internal server error"

\* Catch blocks where a failure of createInitialUserData reaches the route's
CatchRethrown(r) ==
  [r EXCEPT !.pc = "done", !.threw = TRUE, !.caught = r.pc,
            !.res = [NoRes EXCEPT !.status = CatchStatus(r.pc),
                                  !.message = CatchMessage(r.pc)]]

\* The catch blocks: what a handler answers when the store call it awaits
\* throws.  createInitialUserData logs and returns, so signup goes on.
Catch(r) ==
  IF r.pc \in ObPcs
    THEN [r EXCEPT !.pc = "su_login", !.threw = TRUE, !.caught = r.pc]
    ELSE [r EXCEPT !.pc = "done", !.threw = TRUE, !.caught = r.pc,
                   !.res = [NoRes EXCEPT !.status = CatchStatus(r.pc),
                                         !.message = CatchMessage(r.pc)]]

\* The store call request p awaits throws (the store cannot be reached):
\* nothing is written and the handler's catch block runs.
StoreThrows(p) ==
  /\ InFlight(p)
  /\ count.failure < MaxFailures
  /\ req' = [req EXCEPT ![p] = Catch(@)]
  /\ count' = [count EXCEPT !.failure = @ + 1]
  /\ UNCHANGED <<client, User, Progress, Notification, Session, issued, now, obs, limiter, cred>>

\* ----------------------------------------------------------------- tokens
\* userSchema.methods.generateAuthToken: jwt.sign(payload, secret, 7d)
generateAuthToken(id, email, userType, t) ==
  [userId |-> id, email |-> email, userType |-> userType, iat |-> t,
   exp |-> t + TokenDays, sig |-> "good"]

\* jwt.sign(payload, secret, { expiresIn: days })
jwtSign(id, email, userType, t, days) ==
  [userId |-> id, email |-> email, userType |-> userType, iat |-> t,
   exp |-> t + days, sig |-> "good"]

\* A verification of the signature alone
jwtVerifyIgnoreExpiration(token, t) == token.sig = "good"

\* jwt.verify: TRUE when it returns the payload, FALSE when it throws
jwtVerify(token, t) == token.sig = "good" /\ t < token.exp

\* The Authorization headers a client can send: a token it was given, such a
\* token with the signature altered, a string that is no JWT, or none.
TokenInputs ==
  issued \cup {[t EXCEPT !.sig = "bad"] : t \in issued}
         \cup {NoToken, [NoToken EXCEPT !.sig = "malformed"]}

\* authenticateToken up to its await: the header check and jwt.verify
AuthBegin(p, kind, token, body) ==
  LET r == [Idle EXCEPT !.kind = kind, !.token = token, !.body = body] IN
  req' = [req EXCEPT ![p] =
    IF token = NoToken
      THEN [r EXCEPT !.pc = "done",
                     !.res = [NoRes EXCEPT !.status = 401,
                                           !.message = "Access token required"]]
    ELSE IF ~jwtVerify(token, now)
      THEN [r EXCEPT !.pc = "done",
                     !.res = [NoRes EXCEPT !.status = 403,
                                           !.message = "Invalid or expired token"]]
    ELSE [r EXCEPT !.pc = "auth"]]

\* The handler's first store call, by route
FirstPc(kind) ==
  CASE kind = "feedback" -> "fb_update"
    [] kind = "create" -> "cr_save"
    [] kind = "me" -> "me_find"
    [] kind = "profile" -> "pf_update"
    [] kind = "password" -> "cp_find"
    [] kind = "dashboard" -> "db_find"
    [] kind = "progress" -> "pg_find"
    [] kind = "notifications" -> "nl_find"
    [] kind = "sessions" -> "sl_find"
    [] kind = "read" -> "nr_update"

\* Progress.findOne({ userId })
ProgressOf(u) == FindOne(Progress, "userId", u)

\* What the store holds for request p's user and target when p is admitted
Observe(p, u) ==
  LET sid == req[p].body.id
      pi == ProgressOf(u) IN
  [session |-> IF sid \in 1..Len(Session) THEN Session[sid] ELSE <<>>,
   progress |-> IF pi = 0 THEN <<>> ELSE Progress[pi],
   wellnessMetrics |-> User[u].wellnessMetrics]

\* The user check without !user.isActive
UserAdmittedInactive(u) == u \in 1..Len(User)

\* !(!user || !user.isActive)
UserAdmitted(u) == u \in 1..Len(User) /\ User[u].isActive

\* next(): the handler's code up to its first await.  Logout answers at
\* once; change-password checks its body first.
HandlerEntry(r) ==
  CASE r.kind = "logout" ->
         [r EXCEPT !.pc = "done",
                   !.res = [NoRes EXCEPT !.status = 200,
                                         !.message = "Logout successful"]]
    [] r.kind = "password" /\ (r.body.currentPassword = "" \/ r.body.newPassword = "") ->
         [r EXCEPT !.pc = "done",
                   !.res = [NoRes EXCEPT !.status = 400,
                     !.message = "Current password and new password are required"]]
    [] r.kind = "password" /\ r.body.currentPassword # "" /\ r.body.newPassword # ""
         /\ Len(r.body.newPassword) < 6 ->
         [r EXCEPT !.pc = "done",
                   !.res = [NoRes EXCEPT !.status = 400,
                     !.message = "New password must be at least 6 characters long"]]
    [] OTHER -> [r EXCEPT !.pc = FirstPc(r.kind)]

\* authenticateToken from its await on: User.findById(decoded.userId), the
\* 401 for a missing or inactive user, else req.user = user; next()
Authenticate(p) ==
  /\ req[p].pc = "auth"
  /\ LET u == req[p].token.userId IN
     IF UserAdmitted(u)
       THEN /\ req' = [req EXCEPT ![p] = HandlerEntry(
                         [@ EXCEPT !.user = u,
                                   !.local.userType = User[u].userType])]
            /\ obs' = [obs EXCEPT ![p] = Observe(p, u)]
       ELSE /\ req' = Respond(p, 401, "Invalid token or user inactive")
            /\ UNCHANGED obs
  /\ UNCHANGED <<client, User, Progress, Notification, Session, issued, now, count, limiter, cred>>

\* ----------------------------------------------------------- authLimiter
\* The routes mounted with authLimiter, with signup alone
LimitedSignupOnly(kind) == kind = "signup"

\* The routes mounted with authLimiter
Limited(kind) == kind \in {"signup", "login"}

\* rateLimit({ windowMs, max: 5 }): the hit is counted, and the request is
\* refused when the origin's hits of the window exceed max
Throttled(kind, o) == Limited(kind) /\ limiter[o].hits + 1 > AuthLimiterMax

\* The limiter's store after a request of origin o to a signup or login
\* route; passed counts the requests of the window that reached the route's
\* validation
LimiterAfter(kind, o) ==
  [limiter EXCEPT ![o].hits = IF Limited(kind) THEN @ + 1 ELSE @,
                  ![o].passed = IF Throttled(kind, o) THEN @ ELSE @ + 1]

\* The 429 of the limiter
TooMany(r) ==
  [r EXCEPT !.pc = "done",
            !.res = [NoRes EXCEPT !.status = 429,
              !.message = "Too many authentication attempts, please try again later."]]

\* windowMs has passed for origin o: its hits are forgotten
WindowElapses(o) ==
  /\ count.reset < MaxResets
  /\ limiter[o].hits > 0
  /\ limiter' = [limiter EXCEPT ![o] = [hits |-> 0, passed |-> 0]]
  /\ count' = [count EXCEPT !.reset = @ + 1]
  /\ UNCHANGED <<client, User, Progress, Notification, Session, req, issued, now, obs, cred>>

\* ----------------------------------------------------------------- signup
\* validateSignup (fullName and phone are taken to be valid)
validateSignup(body) ==
  /\ emailRegexTest(body.email)
  /\ Len(body.password) >= 6
  /\ body.userType \in {"patient", "practitioner"}

\* POST /api/auth/signup up to its first await
SignupBegin(p, o, email, password, userType) ==
  /\ FreeSlot(p)
  /\ count.signup < MaxSignups
  /\ LET body == [NoBody EXCEPT !.email = email, !.password = password,
                                !.userType = userType]
         r == [Idle EXCEPT !.kind = "signup", !.body = body, !.ip = o] IN
     req' = [req EXCEPT ![p] =
       IF Throttled("signup", o) THEN TooMany(r)
       ELSE IF validateSignup(body) THEN [r EXCEPT !.pc = "su_find"]
       ELSE [r EXCEPT !.pc = "done",
                      !.res = [NoRes EXCEPT !.status = 400,
                                            !.message = "Validation failed"]]]
  /\ limiter' = LimiterAfter("signup", o)
  /\ count' = [count EXCEPT !.signup = @ + 1]
  /\ obs' = [obs EXCEPT ![p] = NoObs]
  /\ UNCHANGED <<client, User, Progress, Notification, Session, issued, now, cred>>

\* await User.findOne({ email: email.toLowerCase() }), and the 400 when the
\* account exists
SignupFindOne(p) ==
  /\ req[p].pc = "su_find"
  /\ req' = IF FindOne(User, "email", toLowerCase(req[p].body.email)) # 0
            THEN Respond(p, 400, "User already exists with this email address")
            ELSE [req EXCEPT ![p].pc = "su_save"]
  /\ UNCHANGED <<client, User, Progress, Notification, Session, issued, now, count, obs, limiter, cred>>

\* new User(userData): the schema's setters (lowercase, trim) and defaults,
\* then the pre-save hook, which hashes the modified password; timestamps:
\* true sets createdAt
NewUser(body) ==
  [email |-> trim(toLowerCase(trim(toLowerCase(body.email)))),
   password |-> bcryptHash(body.password, BcryptRounds),
   userType |-> body.userType,
   isActive |-> TRUE,
   lastLogin |-> -1,
   createdAt |-> now,
   wellnessMetrics |-> DefaultWellnessMetrics]

\* The collection without its unique index on email
NoUniqueIndex(doc) == FALSE

\* The unique index on email: the insert of a second document with an email
\* already present fails with E11000
DuplicateKey(doc) == \E i \in 1..Len(User) : User[i].email = doc.email

\* await user.save(), the insert; error.code === 11000 is answered with 400
SignupSave(p) ==
  /\ req[p].pc = "su_save"
  /\ LET doc == NewUser(req[p].body) IN
     IF DuplicateKey(doc)
       THEN /\ req' = Respond(p, 400, "Email address is already registered")
            /\ UNCHANGED User
            /\ UNCHANGED cred
       ELSE /\ User' = Append(User, doc)
            /\ cred' = Append(cred, req[p].body.password)
            /\ req' = [req EXCEPT ![p].local.user = Len(User) + 1,
                                  ![p].pc = IF doc.userType = "patient"
                                            THEN "ob_progress"
                                            ELSE "ob_practitioner"]
  /\ UNCHANGED <<client, Progress, Notification, Session, issued, now, count, obs, limiter>>

\* ------------------------------------------- createInitialUserData (onboarding)
\* new Progress({...}) for a patient, and await progress.save()
\* r, w, e, sl are the four values of Math.floor(Math.random() * n)
OnboardProgress(p, r, w, e, sl) ==
  /\ req[p].pc = "ob_progress"
  /\ Progress' = Append(Progress,
       [userId |-> req[p].local.user,
        overallProgress |-> <<r + 10, 1>>,
        completedSessions |-> 0,
        totalSessions |-> DefaultTotalSessions,
        wellnessScores |-> << [wellness |-> w + 7, energy |-> e + 7,
                               sleep |-> sl + 8] >>])
  /\ req' = [req EXCEPT ![p].pc = "ob_welcome"]
  /\ UNCHANGED <<client, User, Notification, Session, issued, now, count, obs, limiter, cred>>

\* the welcome notification, and await welcomeNotification.save()
OnboardWelcome(p) ==
  /\ req[p].pc = "ob_welcome"
  /\ Notification' = Append(Notification,
       [userId |-> req[p].local.user, title |-> "Welcome to AyurSutra!",
        type |-> "general", priority |-> "high", read |-> FALSE])
  /\ req' = [req EXCEPT ![p].pc = "ob_sessions"]
  /\ UNCHANGED <<client, User, Progress, Session, issued, now, count, obs, limiter, cred>>

\* A sample session that has already begun
SeedSessionInProgress(u, name) ==
  [userId |-> u, name |-> name, status |-> "in-progress", progress |-> 0,
   feedback |-> NoFeedback, practitionerId |-> 0]

\* One of the two sample sessions
SeedSession(u, name) ==
  [userId |-> u, name |-> name, status |-> "scheduled", progress |-> 0,
   feedback |-> NoFeedback, practitionerId |-> 0]

\* await Session.insertMany(sessions)
OnboardSessions(p) ==
  /\ req[p].pc = "ob_sessions"
  /\ Session' = Session \o
       << SeedSession(req[p].local.user, "Initial Consultation"),
          SeedSession(req[p].local.user, "Abhyanga Therapy") >>
  /\ req' = [req EXCEPT ![p].pc = "su_login"]
  /\ UNCHANGED <<client, User, Progress, Notification, issued, now, count, obs, limiter, cred>>

\* the practitioner's welcome notification
OnboardPractitioner(p) ==
  /\ req[p].pc = "ob_practitioner"
  /\ Notification' = Append(Notification,
       [userId |-> req[p].local.user, title |-> "Welcome, Practitioner!",
        type |-> "general", priority |-> "high", read |-> FALSE])
  /\ req' = [req EXCEPT ![p].pc = "su_login"]
  /\ UNCHANGED <<client, User, Progress, Session, issued, now, count, obs, limiter, cred>>

\* The payload built from the request body instead of the saved document
SignupTokenFromBody(r, t) ==
  generateAuthToken(r.local.user, r.body.email, r.body.userType, t)

\* The token signup issues: user.generateAuthToken() on the saved document
SignupToken(r, t) ==
  LET doc == NewUser(r.body) IN
  generateAuthToken(r.local.user, doc.email, doc.userType, t)

\* The account object sent with its password
KeepPassword(obj) == obj

\* delete userResponse.password, and .select("-password")
DeletePassword(obj) == [f \in DOMAIN obj \ {"password"} |-> obj[f]]

\* user.toObject()
toObject(doc) == doc

\* user.generateAuthToken(); user.lastLogin = new Date(); await user.save();
\* then the 201 response with user.toObject() less its password.  The password is unmodified, so the pre-save hook
\* leaves it alone and the save sets lastLogin only.
SignupLogin(p) ==
  /\ req[p].pc = "su_login"
  /\ User' = [User EXCEPT ![req[p].local.user].lastLogin = now]
  /\ req' = [req EXCEPT ![p].pc = "done",
                        ![p].res = [status |-> 201,
                                    message |-> "User created successfully",
                                    user |-> req[p].local.user,
                                    token |-> SignupToken(req[p], now),
                                    account |-> DeletePassword(toObject(
                                      User'[req[p].local.user])),
                                    returned |-> {}]]
  /\ issued' = issued \cup {SignupToken(req[p], now)}
  /\ UNCHANGED <<client, Progress, Notification, Session, now, count, obs, limiter, cred>>

\* --------------------------------------------- PUT /api/sessions/:id/feedback
SessionIdInputs == (1..Len(Session)) \cup {AbsentId, MalformedId}

FeedbackBegin(p, token, id, fb) ==
  /\ FreeSlot(p)
  /\ count.feedback < MaxFeedbacks
  /\ AuthBegin(p, "feedback", token,
               [NoBody EXCEPT !.id = id, !.wellness = fb.wellness,
                              !.energy = fb.energy, !.sleep = fb.sleep])
  /\ count' = [count EXCEPT !.feedback = @ + 1]
  /\ obs' = [obs EXCEPT ![p] = NoObs]
  /\ UNCHANGED <<client, User, Progress, Notification, Session, issued, now, limiter, cred>>

\* The filter { _id: req.params.id, userId: req.user._id }: the matching
\* session, 0 when there is none
\* The filter on _id alone
FeedbackFilterAnyOwner(id, u) ==
  IF id \in 1..Len(Session) THEN id ELSE 0

FeedbackFilter(id, u) ==
  IF id \in 1..Len(Session) /\ Session[id].userId = u THEN id ELSE 0

\* The update document without progress: 100
FeedbackUpdateDocNoProgress(doc, body) ==
  [doc EXCEPT !.feedback = [wellness |-> body.wellness, energy |-> body.energy,
                            sleep |-> body.sleep],
              !.status = "completed"]

\* The update document without status: "completed"
FeedbackUpdateDocNoStatus(doc, body) ==
  [doc EXCEPT !.feedback = [wellness |-> body.wellness, energy |-> body.energy,
                            sleep |-> body.sleep],
              !.progress = 100]

\* The update document of Session.findOneAndUpdate
FeedbackUpdateDoc(doc, body) ==
  [doc EXCEPT !.feedback = [wellness |-> body.wellness, energy |-> body.energy,
                            sleep |-> body.sleep],
              !.status = "completed",
              !.progress = 100]

\* await Session.findOneAndUpdate(...), and the 404 when it finds nothing.
\* An id that is no ObjectId makes the query throw (CastError): the catch
\* block answers 500.
FeedbackUpdate(p) ==
  /\ req[p].pc = "fb_update"
  /\ LET id == req[p].body.id
         hit == FeedbackFilter(id, req[p].user) IN
     IF id = MalformedId
       THEN /\ req' = Respond(p, 500, "Error updating session feedback")
            /\ UNCHANGED Session
     ELSE IF hit = 0
       THEN /\ req' = Respond(p, 404, "Session not found")
            /\ UNCHANGED Session
     ELSE /\ Session' = [Session EXCEPT ![hit] = FeedbackUpdateDoc(@, req[p].body)]
          /\ req' = [req EXCEPT ![p].pc = "fb_find"]
  /\ UNCHANGED <<client, User, Progress, Notification, issued, now, count, obs, limiter, cred>>

\* progress.completedSessions += 1
IncrementCompleted(doc) == doc.completedSessions + 1

\* The percentage computed from the count before the increment
RecomputeOverallStale(completed, total) ==
  MathMin(<<100, 1>>, Rat((completed - 1) * 100, total))

\* Math.min(100, (progress.completedSessions / progress.totalSessions) * 100)
RecomputeOverall(completed, total) ==
  MathMin(<<100, 1>>, Rat(completed * 100, total))

\* await Progress.findOne({ userId }), then the changes made to the document
\* in memory, up to the await of progress.save()
FeedbackFindProgress(p) ==
  /\ req[p].pc = "fb_find"
  /\ LET pi == ProgressOf(req[p].user) IN
     req' = IF pi = 0
            THEN [req EXCEPT ![p].pc = "fb_user"]
            ELSE [req EXCEPT
                    ![p].pc = "fb_save",
                    ![p].local.progress = pi,
                    ![p].local.completedSessions = IncrementCompleted(Progress[pi]),
                    ![p].local.overallProgress =
                      RecomputeOverall(IncrementCompleted(Progress[pi]),
                                       Progress[pi].totalSessions)]
  /\ UNCHANGED <<client, User, Progress, Notification, Session, issued, now, count, obs, limiter, cred>>

\* What progress.save() writes: $set of the two modified numbers with the
\* values held in memory, and $push of the new wellnessScores entry
SaveProgress(doc, local, body) ==
  [doc EXCEPT !.completedSessions = local.completedSessions,
              !.overallProgress = local.overallProgress,
              !.wellnessScores = Append(@, [wellness |-> body.wellness,
                                            energy |-> body.energy,
                                            sleep |-> body.sleep])]

\* await progress.save()
FeedbackSave(p) ==
  /\ req[p].pc = "fb_save"
  /\ Progress' = [Progress EXCEPT ![req[p].local.progress] =
                    SaveProgress(@, req[p].local, req[p].body)]
  /\ req' = [req EXCEPT ![p].pc = "fb_user"]
  /\ UNCHANGED <<client, User, Notification, Session, issued, now, count, obs, limiter, cred>>

\* The wellness-metric snapshot written by User.findByIdAndUpdate
WellnessSnapshot(body) ==
  [sleepQuality |-> body.sleep * 10,
   energyLevel |-> body.energy * 10,
   overallWellness |-> body.wellness * 10]

\* await User.findByIdAndUpdate(...), then res.json({ session })
FeedbackUser(p) ==
  /\ req[p].pc = "fb_user"
  /\ User' = [User EXCEPT ![req[p].user].wellnessMetrics =
                WellnessSnapshot(req[p].body)]
  /\ req' = Respond(p, 200, "")
  /\ UNCHANGED <<client, Progress, Notification, Session, issued, now, count, obs, limiter, cred>>

\* ------------------------------------------------------- POST /api/sessions
\* POST /api/sessions with a practitionerId in the body: the id is stored as
\* given, 0 standing for a body without one
CreateBeginWith(p, token, name, practitionerId) ==
  /\ FreeSlot(p)
  /\ count.create < MaxCreates
  /\ AuthBegin(p, "create", token,
               [NoBody EXCEPT !.name = name, !.practitionerId = practitionerId])
  /\ count' = [count EXCEPT !.create = @ + 1]
  /\ obs' = [obs EXCEPT ![p] = NoObs]
  /\ UNCHANGED <<client, User, Progress, Notification, Session, issued, now, limiter, cred>>

\* new Session({ userId, name, ..., status: "scheduled", progress: 0 })
CreateBegin(p, token, name) == CreateBeginWith(p, token, name, 0)

NewSession(u, body) ==
  [userId |-> u, name |-> body.name, status |-> "scheduled", progress |-> 0,
   feedback |-> NoFeedback, practitionerId |-> body.practitionerId]

\* await session.save()
CreateSave(p) ==
  /\ req[p].pc = "cr_save"
  /\ Session' = Append(Session, NewSession(req[p].user, req[p].body))
  /\ req' = [req EXCEPT ![p].pc = "cr_notify"]
  /\ UNCHANGED <<client, User, Progress, Notification, issued, now, count, obs, limiter, cred>>

\* the "Session Scheduled" notification, await notification.save(), then 201
CreateNotify(p) ==
  /\ req[p].pc = "cr_notify"
  /\ Notification' = Append(Notification,
       [userId |-> req[p].user, title |-> "Session Scheduled",
        type |-> "appointment", priority |-> "medium", read |-> FALSE])
  /\ req' = Respond(p, 201, "")
  /\ UNCHANGED <<client, User, Progress, Session, issued, now, count, obs, limiter, cred>>

\* ---------------------------------------------------------- GET /api/auth/me
MeBegin(p, token) ==
  /\ FreeSlot(p)
  /\ count.me < MaxMe
  /\ AuthBegin(p, "me", token, NoBody)
  /\ count' = [count EXCEPT !.me = @ + 1]
  /\ obs' = [obs EXCEPT ![p] = NoObs]
  /\ UNCHANGED <<client, User, Progress, Notification, Session, issued, now, limiter, cred>>

\* await User.findById(req.user._id), then res.json({ user })
MeFind(p) ==
  /\ req[p].pc = "me_find"
  /\ req' = [Respond(p, 200, "") EXCEPT
               ![p].res.user = IF req[p].user \in 1..Len(User)
                               THEN req[p].user ELSE 0,
               ![p].res.account = IF req[p].user \in 1..Len(User)
                                  THEN DeletePassword(User[req[p].user])
                                  ELSE <<>>]
  /\ UNCHANGED <<client, User, Progress, Notification, Session, issued, now, count, obs, limiter, cred>>

\* ------------------------------------------------------ POST /api/auth/login
\* validateLogin
validateLogin(body) ==
  /\ \E i \in 1..Len(body.email) : body.email[i] = "@"
  /\ Len(body.password) >= 6

\* POST /api/auth/login up to its first await: authLimiter, validateLogin
LoginBegin(p, o, email, password, rememberMe) ==
  /\ FreeSlot(p)
  /\ count.login < MaxAttempts
  /\ LET body == [NoBody EXCEPT !.email = email, !.password = password,
                                !.rememberMe = rememberMe]
         r == [Idle EXCEPT !.kind = "login", !.body = body, !.ip = o] IN
     req' = [req EXCEPT ![p] =
       IF Throttled("login", o) THEN TooMany(r)
       ELSE IF validateLogin(body) THEN [r EXCEPT !.pc = "lg_find"]
       ELSE [r EXCEPT !.pc = "done",
                      !.res = [NoRes EXCEPT !.status = 400,
                                            !.message = "Validation failed"]]]
  /\ limiter' = LimiterAfter("login", o)
  /\ count' = [count EXCEPT !.login = @ + 1]
  /\ obs' = [obs EXCEPT ![p] = NoObs]
  /\ UNCHANGED <<client, User, Progress, Notification, Session, issued, now, cred>>

\* The filter without isActive: true
LoginFilterAnyState(email) == FindOne(User, "email", trim(toLowerCase(email)))

\* User.findOne({ email: email.toLowerCase().trim(), isActive: true })
LoginFilter(email) ==
  LET m == {i \in Matching(User, "email", trim(toLowerCase(email))) :
              User[i].isActive} IN
  IF m = {} THEN 0 ELSE CHOOSE i \in m : \A j \in m : i <= j

\* A message that tells an unknown e-mail from a wrong password
UnknownEmailMessageLeaky == "No account with this email"

\* The message of the 401 when no active user has the e-mail
UnknownEmailMessage == "Invalid email or password"

\* The lifetime that ignores rememberMe
LoginExpiryShort(rememberMe) == TokenDays

\* const tokenExpiry = rememberMe ? "30d" : "7d"
LoginExpiry(rememberMe) == IF rememberMe THEN RememberDays ELSE TokenDays

\* await User.findOne(...), await user.comparePassword(password) on the
\* document found, and jwt.sign: up to the await of user.save()
LoginFind(p) ==
  /\ req[p].pc = "lg_find"
  /\ LET u == LoginFilter(req[p].body.email) IN
     req' = IF u = 0
              THEN Respond(p, 401, UnknownEmailMessage)
            ELSE IF ~comparePassword(req[p].body.password, User[u].password)
              THEN Respond(p, 401, "Invalid email or password")
            ELSE [req EXCEPT
                    ![p].pc = "lg_save",
                    ![p].local.user = u,
                    ![p].local.doc = User[u],
                    ![p].local.token =
                      jwtSign(u, User[u].email, User[u].userType, now,
                              LoginExpiry(req[p].body.rememberMe))]
  /\ UNCHANGED <<client, User, Progress, Notification, Session, issued, now, count, obs,
                 limiter, cred>>

\* user.lastLogin = new Date(); await user.save(); then the response.  Only
\* lastLogin is modified, so the pre-save hook leaves the password alone.
LoginSave(p) ==
  /\ req[p].pc = "lg_save"
  /\ User' = [User EXCEPT ![req[p].local.user].lastLogin = req[p].local.token.iat]
  /\ req' = [req EXCEPT ![p].pc = "done",
                        ![p].res = [status |-> 200,
                                    message |-> "Login successful",
                                    user |-> req[p].local.user,
                                    token |-> req[p].local.token,
                                    account |-> DeletePassword(toObject(
                                      [req[p].local.doc EXCEPT
                                         !.lastLogin = req[p].local.token.iat])),
                                    returned |-> {}]]
  /\ issued' = issued \cup {req[p].local.token}
  /\ UNCHANGED <<client, Progress, Notification, Session, now, count, obs, limiter, cred>>

\* ----------------------------------------------------- PUT /api/auth/profile
\* PUT /api/auth/profile bodies that name the fields the route deletes: every
\* one of them together with isActive, and the password and the e-mail alone
ProfilePatches ==
  { [NoPatch EXCEPT !.fields = {"password", "email", "_id", "createdAt",
                                "updatedAt", "isActive"},
                    !.password = "secret2", !.email = <<"c", "@", "x">>,
                    !.createdAt = 9, !.isActive = FALSE],
    [NoPatch EXCEPT !.fields = {"password", "email"}, !.password = "secret2",
                    !.email = <<"b", "@", "x">>] }

ProfileBegin(p, token, patch) ==
  /\ FreeSlot(p)
  /\ count.profile < MaxProfiles
  /\ AuthBegin(p, "profile", token, [NoBody EXCEPT !.patch = patch])
  /\ count' = [count EXCEPT !.profile = @ + 1]
  /\ obs' = [obs EXCEPT ![p] = NoObs]
  /\ UNCHANGED <<client, User, Progress, Notification, Session, issued, now, limiter, cred>>

\* The patch with nothing deleted
KeepAll(patch) == patch

\* delete updates.password; delete updates.email; delete updates._id; ...
StripPatch(patch) ==
  [patch EXCEPT !.fields = @ \ {"password", "email", "_id", "createdAt", "updatedAt"}]

\* A value stored as given, with no hash
Plain(password) == <<"plain", password>>

\* { $set: updates } on a user document
ApplyPatch(doc, patch) ==
  [doc EXCEPT
     !.password = IF "password" \in patch.fields THEN Plain(patch.password) ELSE @,
     !.email = IF "email" \in patch.fields THEN patch.email ELSE @,
     !.userType = IF "userType" \in patch.fields THEN patch.userType ELSE @,
     !.createdAt = IF "createdAt" \in patch.fields THEN patch.createdAt ELSE @,
     !.isActive = IF "isActive" \in patch.fields THEN patch.isActive ELSE @]

\* await User.findByIdAndUpdate(userId, { $set: updates }, { runValidators })
\* and the response; a userType outside the enum is a ValidationError
ProfileUpdate(p) ==
  /\ req[p].pc = "pf_update"
  /\ LET updates == StripPatch(req[p].body.patch) IN
     IF "userType" \in updates.fields /\ updates.userType \notin UserTypes
       THEN /\ req' = Respond(p, 400, "Validation failed")
            /\ UNCHANGED User
       ELSE /\ User' = [User EXCEPT ![req[p].user] = ApplyPatch(@, updates)]
            /\ req' = [Respond(p, 200, "Profile updated successfully") EXCEPT
                         ![p].res.user = req[p].user,
                         ![p].res.account = DeletePassword(User'[req[p].user])]
  /\ UNCHANGED <<client, Progress, Notification, Session, issued, now, count, obs,
                 limiter, cred>>

\* --------------------------------------------- PUT /api/auth/change-password
PasswordBegin(p, token, currentPassword, newPassword) ==
  /\ FreeSlot(p)
  /\ AuthBegin(p, "password", token,
               [NoBody EXCEPT !.currentPassword = currentPassword,
                              !.newPassword = newPassword])
  /\ count' = [count EXCEPT !.password = @ + 1]
  /\ obs' = [obs EXCEPT ![p] = NoObs]
  /\ UNCHANGED <<client, User, Progress, Notification, Session, issued, now, limiter, cred>>

\* The handler without the check of the current password
PasswordFindUnchecked(p) ==
  /\ req[p].pc = "cp_find"
  /\ req' = [req EXCEPT ![p].pc = "cp_save"]
  /\ UNCHANGED <<client, User, Progress, Notification, Session, issued, now, count, obs,
                 limiter, cred>>

\* await User.findById(req.user._id), await user.comparePassword(...) on the
\* document found, and the 401
PasswordFind(p) ==
  /\ req[p].pc = "cp_find"
  /\ req' = IF comparePassword(req[p].body.currentPassword,
                               User[req[p].user].password)
            THEN [req EXCEPT ![p].pc = "cp_save"]
            ELSE Respond(p, 401, "Current password is incorrect")
  /\ UNCHANGED <<client, User, Progress, Notification, Session, issued, now, count, obs,
                 limiter, cred>>

\* user.password = newPassword; await user.save(): the pre-save hook hashes
\* the modified password; then the response
PasswordSave(p) ==
  /\ req[p].pc = "cp_save"
  /\ User' = [User EXCEPT ![req[p].user].password =
                bcryptHash(req[p].body.newPassword, BcryptRounds)]
  /\ cred' = [cred EXCEPT ![req[p].user] = req[p].body.newPassword]
  /\ req' = Respond(p, 200, "Password changed successfully")
  /\ UNCHANGED <<client, Progress, Notification, Session, issued, now, count, obs, limiter>>

\* ------------------- dashboard, progress, notifications, sessions, logout
\* The other routes behind authenticateToken: GET /api/dashboard,
\* GET /api/progress, GET /api/notifications, GET /api/sessions,
\* PUT /api/notifications/:id/read, POST /api/auth/logout
CallKinds == {"dashboard", "progress", "notifications", "sessions", "read",
              "logout"}

CallBegin(p, kind, token, id) ==
  /\ FreeSlot(p)
  /\ count.call < MaxCalls
  /\ AuthBegin(p, kind, token, [NoBody EXCEPT !.id = id])
  /\ count' = [count EXCEPT !.call = @ + 1]
  /\ obs' = [obs EXCEPT ![p] = NoObs]
  /\ UNCHANGED <<client, User, Progress, Notification, Session, issued, now, limiter, cred>>

\* The lazy creation without the userType check
NeedsDefaultAnyType(pi, userType) == pi = 0

\* !progress && req.user.userType === "patient"
NeedsDefault(pi, userType) == pi = 0 /\ userType = "patient"

\* Progress.findOne({ userId }): the record found, as the set of what is read
FindProgress(u) ==
  IF ProgressOf(u) = 0 THEN {} ELSE {[coll |-> "Progress", id |-> ProgressOf(u)]}

\* Notification.find({ userId })
FindNotifications(u) ==
  {[coll |-> "Notification", id |-> i] :
     i \in {j \in 1..Len(Notification) : Notification[j].userId = u}}

\* Session.find({ userId }).populate("practitionerId", "fullName email"): the
\* sessions of u, and with each the name and e-mail of the account its
\* practitionerId names, when there is one
Populated(u) ==
  {[coll |-> "User", id |-> Session[j].practitionerId] :
     j \in {i \in 1..Len(Session) :
              /\ Session[i].userId = u
              /\ Session[i].practitionerId \in 1..Len(User)}}

FindSessions(u) ==
  {[coll |-> "Session", id |-> i] :
     i \in {j \in 1..Len(Session) : Session[j].userId = u}}
    \cup Populated(u)

\* Session.find({ userId, date: { $gte: now }, status: { $in: [...] } })
FindUpcoming(u) ==
  {[coll |-> "Session", id |-> i] :
     i \in {j \in 1..Len(Session) :
              /\ Session[j].userId = u
              /\ Session[j].status \in {"scheduled", "in-progress"}}}

\* res.json(...) with the records the handler read
RespondWith(p, returned) ==
  [Respond(p, 200, "") EXCEPT ![p].res.returned = returned]

\* let progress = await Progress.findOne({ userId }), up to the next await
DashboardFind(p) ==
  /\ req[p].pc = "db_find"
  /\ req' = [req EXCEPT ![p].pc =
       IF NeedsDefault(ProgressOf(req[p].user), req[p].local.userType)
       THEN "db_save" ELSE "db_notifs",
                        ![p].local.returned = FindProgress(req[p].user)]
  /\ UNCHANGED <<client, User, Progress, Notification, Session, issued, now, count, obs,
                 limiter, cred>>

\* new Progress({ userId, overallProgress: 15, completedSessions: 2,
\* totalSessions: 21 }); await progress.save()
DashboardSave(p) ==
  /\ req[p].pc = "db_save"
  /\ Progress' = Append(Progress,
       [userId |-> req[p].user, overallProgress |-> <<15, 1>>,
        completedSessions |-> 2, totalSessions |-> DefaultTotalSessions,
        wellnessScores |-> <<>>])
  /\ req' = [req EXCEPT ![p].pc = "db_notifs",
                        ![p].local.returned =
                          {[coll |-> "Progress", id |-> Len(Progress) + 1]}]
  /\ UNCHANGED <<client, User, Notification, Session, issued, now, count, obs, limiter, cred>>

\* await Notification.find({ userId })
DashboardNotifications(p) ==
  /\ req[p].pc = "db_notifs"
  /\ req' = [req EXCEPT ![p].pc = "db_sessions",
                        ![p].local.returned = @ \cup FindNotifications(req[p].user)]
  /\ UNCHANGED <<client, User, Progress, Notification, Session, issued, now, count, obs,
                 limiter, cred>>

\* await Session.find({ userId, date, status })
DashboardSessions(p) ==
  /\ req[p].pc = "db_sessions"
  /\ req' = [req EXCEPT ![p].pc = "db_user",
                        ![p].local.returned = @ \cup FindUpcoming(req[p].user)]
  /\ UNCHANGED <<client, User, Progress, Notification, Session, issued, now, count, obs,
                 limiter, cred>>

\* await User.findById(userId).select("profile.wellnessMetrics"); res.json
DashboardUser(p) ==
  /\ req[p].pc = "db_user"
  /\ req' = RespondWith(p, req[p].local.returned)
  /\ UNCHANGED <<client, User, Progress, Notification, Session, issued, now, count, obs,
                 limiter, cred>>

\* GET /api/progress: await Progress.findOne({ userId }), and the response
\* when there is a record or the user is no patient
ProgressFind(p) ==
  /\ req[p].pc = "pg_find"
  /\ req' = IF NeedsDefault(ProgressOf(req[p].user), req[p].local.userType)
            THEN [req EXCEPT ![p].pc = "pg_save"]
            ELSE RespondWith(p, FindProgress(req[p].user))
  /\ UNCHANGED <<client, User, Progress, Notification, Session, issued, now, count, obs,
                 limiter, cred>>

\* new Progress({ userId, overallProgress: 10, completedSessions: 0,
\* totalSessions: 21 }); await newProgress.save(); res.json
ProgressSave(p) ==
  /\ req[p].pc = "pg_save"
  /\ Progress' = Append(Progress,
       [userId |-> req[p].user, overallProgress |-> <<10, 1>>,
        completedSessions |-> 0, totalSessions |-> DefaultTotalSessions,
        wellnessScores |-> <<>>])
  /\ req' = RespondWith(p, {[coll |-> "Progress", id |-> Len(Progress) + 1]})
  /\ UNCHANGED <<client, User, Notification, Session, issued, now, count, obs, limiter, cred>>

\* GET /api/notifications and GET /api/sessions: one find, then the response
ListFind(p) ==
  /\ req[p].pc \in {"nl_find", "sl_find"}
  /\ req' = RespondWith(p, IF req[p].pc = "nl_find"
                             THEN FindNotifications(req[p].user)
                             ELSE FindSessions(req[p].user))
  /\ UNCHANGED <<client, User, Progress, Notification, Session, issued, now, count, obs,
                 limiter, cred>>

\* The route with findOneAndDelete in place of findOneAndUpdate
MarkReadRemoves(p) ==
  /\ req[p].pc = "nr_update"
  /\ LET id == req[p].body.id IN
     IF id \in 1..Len(Notification) /\ Notification[id].userId = req[p].user
       THEN /\ Notification' = SubSeq(Notification, 1, id - 1)
                                 \o SubSeq(Notification, id + 1, Len(Notification))
            /\ req' = Respond(p, 200, "")
     ELSE /\ req' = Respond(p, 404, "Notification not found")
          /\ UNCHANGED Notification
  /\ UNCHANGED <<client, User, Progress, Session, issued, now, count, obs, limiter, cred>>

\* PUT /api/notifications/:id/read: await Notification.findOneAndUpdate(
\* { _id, userId }, { read: true }); an id that is no ObjectId throws
MarkRead(p) ==
  /\ req[p].pc = "nr_update"
  /\ LET id == req[p].body.id IN
     IF id = MalformedId
       THEN /\ req' = Respond(p, 500, "Error updating notification")
            /\ UNCHANGED Notification
     ELSE IF id \in 1..Len(Notification) /\ Notification[id].userId = req[p].user
       THEN /\ Notification' = [Notification EXCEPT ![id].read = TRUE]
            /\ req' = Respond(p, 200, "")
     ELSE /\ req' = Respond(p, 404, "Notification not found")
          /\ UNCHANGED Notification
  /\ UNCHANGED <<client, User, Progress, Session, issued, now, count, obs, limiter, cred>>

\* ------------------------------------------------------------ specifications
Quiet == \A q \in Procs : ~InFlight(q)

\* The practitionerId of a body: an account of Cast
PractitionerInputs == 1..MaxSignups

NoSignup == \A q \in Procs : InFlight(q) => req[q].kind # "signup"

\* A patient and a practitioner
Cast == { [email |-> <<"a", "@", "x">>, userType |-> "patient"],
          [email |-> <<"b", "@", "x">>, userType |-> "practitioner"] }

\* The steps of a signup after it is admitted
SignupStep(p) ==
  \/ SignupFindOne(p)
  \/ SignupSave(p)
  \/ \E r \in Random20, d \in ScoreDraws : OnboardProgress(p, r, d[1], d[2], d[3])
  \/ OnboardWelcome(p)
  \/ OnboardSessions(p)
  \/ OnboardPractitioner(p)
  \/ SignupLogin(p)

\* Sessions: the accounts of Cast sign up one at a time; their holders then
\* create sessions and submit feedback concurrently, and any store call of
\* those requests may throw.
Next ==
  \/ \E p \in Procs, c \in Cast, pw \in PasswordInputs :
       Quiet /\ SignupBegin(p, LocalOrigin, c.email, pw, c.userType)
  \/ \E p \in Procs : SignupStep(p)
  \/ \E p \in Procs : Authenticate(p)
  \/ \E p \in Procs, tok \in issued, id \in SessionIdInputs,
        fb \in FeedbackInputs : NoSignup /\ FeedbackBegin(p, tok, id, fb)
  \/ \E p \in Procs : FeedbackUpdate(p)
  \/ \E p \in Procs : FeedbackFindProgress(p)
  \/ \E p \in Procs : FeedbackSave(p)
  \/ \E p \in Procs : FeedbackUser(p)
  \/ \E p \in Procs, tok \in issued, name \in NameInputs :
       NoSignup /\ CreateBegin(p, tok, name)
  \/ \E p \in Procs : CreateSave(p)
  \/ \E p \in Procs : CreateNotify(p)
  \/ \E p \in Procs : req[p].kind # "signup" /\ StoreThrows(p)

Spec == Init /\ [][Next]_vars

\* One request at a time: the same routes without the failing store, each
\* request admitted only when no other is in flight.
NextSeq ==
  \/ \E p \in Procs, c \in Cast, pw \in PasswordInputs :
       Quiet /\ SignupBegin(p, LocalOrigin, c.email, pw, c.userType)
  \/ \E p \in Procs : SignupStep(p)
  \/ \E p \in Procs : Authenticate(p)
  \/ \E p \in Procs, tok \in issued, id \in SessionIdInputs,
        fb \in FeedbackInputs : Quiet /\ FeedbackBegin(p, tok, id, fb)
  \/ \E p \in Procs : FeedbackUpdate(p)
  \/ \E p \in Procs : FeedbackFindProgress(p)
  \/ \E p \in Procs : FeedbackSave(p)
  \/ \E p \in Procs : FeedbackUser(p)
  \/ \E p \in Procs, tok \in issued, name \in NameInputs :
       Quiet /\ CreateBegin(p, tok, name)
  \/ \E p \in Procs : CreateSave(p)
  \/ \E p \in Procs : CreateNotify(p)

SpecSeq == Init /\ [][NextSeq]_vars

\* Accounts: signups with any of the e-mail inputs race each other, clients
\* call /auth/me with any token they can send, and time passes.
NextAuth ==
  \/ \E p \in Procs, e \in EmailInputs, pw \in PasswordInputs, ut \in UserTypes :
       SignupBegin(p, LocalOrigin, e, pw, ut)
  \/ \E p \in Procs : SignupStep(p)
  \/ \E p \in Procs : Authenticate(p)
  \/ \E p \in Procs, tok \in TokenInputs : MeBegin(p, tok)
  \/ \E p \in Procs : MeFind(p)
  \/ Tick

SpecAuth == Init /\ [][NextAuth]_vars

\* The steps of the other routes after their request is admitted
LoginStep(p) ==
  \/ LoginFind(p)
  \/ LoginSave(p)

FeedbackStep(p) ==
  \/ FeedbackUpdate(p)
  \/ FeedbackFindProgress(p)
  \/ FeedbackSave(p)
  \/ FeedbackUser(p)

PasswordStep(p) ==
  \/ PasswordFind(p)
  \/ PasswordSave(p)

\* No request other than a login is being handled
OnlyLogins == \A q \in Procs : InFlight(q) => req[q].kind = "login"

\* Credentials: the accounts of Cast sign up; then logins, profile updates, password
\* changes and feedback submissions follow one another; logins may overlap
\* each other, every other request runs alone.
NextCred ==
  \/ \E p \in Procs, c \in Cast, pw \in PasswordInputs :
       Quiet /\ SignupBegin(p, LocalOrigin, c.email, pw, c.userType)
  \/ \E p \in Procs : SignupStep(p)
  \/ \E p \in Procs : Authenticate(p)
  \/ \E p \in Procs, e \in LoginEmails, pw \in TryPasswords, rm \in BOOLEAN :
       /\ OnlyLogins /\ count.login < MaxLogins
       /\ LoginBegin(p, LocalOrigin, e, pw, rm)
  \/ \E p \in Procs : LoginStep(p)
  \/ \E p \in Procs, tok \in issued, patch \in PatchInputs :
       Quiet /\ ProfileBegin(p, tok, patch)
  \/ \E p \in Procs : ProfileUpdate(p)
  \/ \E p \in Procs, tok \in issued, cur \in TryPasswords, new \in NewPasswords :
       /\ Quiet /\ count.password < MaxPasswords
       /\ PasswordBegin(p, tok, cur, new)
  \/ \E p \in Procs : PasswordStep(p)
  \/ \E p \in Procs, tok \in issued, fb \in FeedbackInputs :
       Quiet /\ count.feedback < 1 /\ FeedbackBegin(p, tok, 1, fb)
  \/ \E p \in Procs : FeedbackStep(p)

SpecCred == Init /\ [][NextCred]_vars

\* The steps of the routes behind authenticateToken other than feedback and
\* change-password
CallStep(p) ==
  \/ MeFind(p)
  \/ ProfileUpdate(p)
  \/ CreateSave(p)
  \/ CreateNotify(p)
  \/ DashboardFind(p)
  \/ DashboardSave(p)
  \/ DashboardNotifications(p)
  \/ DashboardSessions(p)
  \/ DashboardUser(p)
  \/ ProgressFind(p)
  \/ ProgressSave(p)
  \/ ListFind(p)
  \/ MarkRead(p)

\* The signups are over
SignedUp == Quiet /\ count.signup = MaxSignups

\* The requests made so far to the routes behind authenticateToken
GateCalls ==
  count.me + count.call + count.password + count.feedback + count.create
    + count.profile

\* The gate: the accounts of Cast sign up; then the patient may log in, time
\* passes, an account may be deactivated through its profile; then every route behind
\* authenticateToken is called, one request at a time, with any token a
\* client can send.  A store call of onboarding may throw.
NextGate ==
  \/ \E p \in Procs, c \in Cast, pw \in PasswordInputs :
       Quiet /\ SignupBegin(p, LocalOrigin, c.email, pw, c.userType)
  \/ \E p \in Procs : SignupStep(p)
  \/ \E p \in Procs : req[p].pc \in ObPcs /\ StoreThrows(p)
  \/ \E p \in Procs, pw \in PasswordInputs, rm \in BOOLEAN :
       /\ SignedUp /\ count.login < 1
       /\ LoginBegin(p, LocalOrigin, <<"a", "@", "x">>, pw, rm)
  \/ \E p \in Procs : LoginStep(p)
  \/ SignedUp /\ Tick
  \/ \E p \in Procs : Authenticate(p)
  \/ \E p \in Procs, tok \in issued :
       /\ SignedUp /\ GateCalls < MaxGateCalls
       /\ ProfileBegin(p, tok, [NoPatch EXCEPT !.fields = {"isActive"},
                                               !.isActive = FALSE])
  \/ \E p \in Procs, tok \in TokenInputs :
       SignedUp /\ GateCalls < MaxGateCalls /\ MeBegin(p, tok)
  \/ \E p \in Procs, tok \in TokenInputs, kind \in CallKinds :
       SignedUp /\ GateCalls < MaxGateCalls /\ CallBegin(p, kind, tok, 1)
  \/ \E p \in Procs, tok \in TokenInputs, cur \in PasswordInputs :
       /\ SignedUp /\ GateCalls < MaxGateCalls /\ count.password < MaxPasswords
       /\ PasswordBegin(p, tok, cur, "secret2")
  \/ \E p \in Procs, tok \in TokenInputs, fb \in FeedbackInputs :
       SignedUp /\ GateCalls < MaxGateCalls /\ FeedbackBegin(p, tok, 1, fb)
  \/ \E p \in Procs, tok \in TokenInputs, name \in NameInputs :
       SignedUp /\ GateCalls < MaxGateCalls /\ CreateBegin(p, tok, name)
  \/ \E p \in Procs, tok \in TokenInputs, name \in NameInputs,
        pid \in PractitionerInputs :
       /\ SignedUp /\ GateCalls < MaxGateCalls
       /\ CreateBeginWith(p, tok, name, pid)
  \/ \E p \in Procs : CallStep(p)
  \/ \E p \in Procs : PasswordStep(p)
  \/ \E p \in Procs : FeedbackStep(p)

SpecGate == Init /\ [][NextGate]_vars

\* The limiter: the accounts of Cast sign up from one origin; then logins for
\* the patient arrive from both origins, overlapping, with the right or a
\* wrong password; an origin's window may run out.
NextLimit ==
  \/ \E p \in Procs, c \in Cast, pw \in PasswordInputs :
       Quiet /\ SignupBegin(p, LocalOrigin, c.email, pw, c.userType)
  \/ \E p \in Procs : SignupStep(p)
  \/ \E p \in Procs, o \in Origins, pw \in {"secret1", "secret2"} :
       /\ NoSignup /\ count.signup = MaxSignups
       /\ LoginBegin(p, o, <<"a", "@", "x">>, pw, FALSE)
  \/ \E p \in Procs : LoginStep(p)
  \/ \E o \in Origins : WindowElapses(o)

SpecLimit == Init /\ [][NextLimit]_vars

\* The steps of a signup with every value of the random draws
SignupStepAll(p) ==
  \/ SignupFindOne(p)
  \/ SignupSave(p)
  \/ \E r \in Random20All, d \in ScoreDrawsAll :
       OnboardProgress(p, r, d[1], d[2], d[3])
  \/ OnboardWelcome(p)
  \/ OnboardSessions(p)
  \/ OnboardPractitioner(p)
  \/ SignupLogin(p)

\* Onboarding: the accounts of Cast sign up, possibly at the same time, with
\* every outcome of the random draws; a store call of a signup may throw.
NextOnboard ==
  \/ \E p \in Procs, c \in Cast, pw \in PasswordInputs :
       SignupBegin(p, LocalOrigin, c.email, pw, c.userType)
  \/ \E p \in Procs : SignupStepAll(p)
  \/ \E p \in Procs : StoreThrows(p)

SpecOnboard == Init /\ [][NextOnboard]_vars

\* ------------------------------------------------------------------ claims
\* A submitFeedback that was answered 200
FeedbackOk(p) ==
  req[p].kind = "feedback" /\ req[p].pc = "done" /\ req[p].res.status = 200

\* A submitFeedback that was admitted (authenticated) and has been answered
FeedbackAnswered(p) ==
  req[p].kind = "feedback" /\ req[p].pc = "done" /\ req[p].user # 0

\* C1: when two submitFeedback requests for two different sessions of one
\* patient account run concurrently, no update is lost: once both are answered
\* 200, completedSessions is 2 higher than before them and wellnessScores has
\* 2 more entries.
C1_NoLostUpdate ==
  \A p, q \in Procs :
    ( /\ p # q
      /\ FeedbackOk(p) /\ FeedbackOk(q)
      /\ req[p].user = req[q].user
      /\ req[p].body.id # req[q].body.id
      /\ obs[p].progress # <<>> /\ obs[q].progress # <<>> )
    => LET doc == Progress[ProgressOf(req[p].user)]
           before == IF obs[p].progress.completedSessions
                          <= obs[q].progress.completedSessions
                     THEN obs[p].progress ELSE obs[q].progress IN
       /\ doc.completedSessions = before.completedSessions + 2
       /\ Len(doc.wellnessScores) = Len(before.wellnessScores) + 2

\* C2: with submitFeedback calls that do not overlap, each call that saves the
\* ProgressRecord raises completedSessions by exactly 1 and leaves
\* overallProgress = min(100, completedSessions / totalSessions * 100); with
\* totalSessions = 21 and completedSessions = 0 before, that is 1 and 100/21.
C2_IncrementAndRecompute ==
  [][\A p \in Procs :
       (req[p].pc = "fb_save" /\ req'[p].pc = "fb_user")
       => LET before == Progress[req[p].local.progress]
              after == Progress'[req[p].local.progress] IN
          /\ after.completedSessions = before.completedSessions + 1
          /\ after.totalSessions = before.totalSessions
          /\ IF after.completedSessions >= after.totalSessions
               THEN after.overallProgress = <<100, 1>>
               ELSE after.overallProgress[1] * after.totalSessions
                      = after.completedSessions * 100 * after.overallProgress[2]
          /\ (before.completedSessions = 0 /\ before.totalSessions = 21)
               => after.overallProgress = <<100, 21>>]_vars

\* Two submitFeedback calls in a row have been answered 200: the record
\* stands at 2 of 21 sessions, 200/21 per cent.
C2_Witness ==
  \E p \in Procs :
    /\ FeedbackOk(p)
    /\ obs[p].progress # <<>>
    /\ obs[p].progress.completedSessions = 1
    /\ obs[p].progress.overallProgress = <<100, 21>>
    /\ Progress[ProgressOf(req[p].user)].completedSessions = 2
    /\ Progress[ProgressOf(req[p].user)].overallProgress = <<200, 21>>

\* C3: submitFeedback is all-or-nothing: a submitFeedback that failed leaves
\* the session, the ProgressRecord and the account's wellness snapshot as they
\* were (stated for the runs with a single submitFeedback, so that every
\* change seen is its own).
C3_AllOrNothing ==
  \A p \in Procs :
    ( /\ FeedbackAnswered(p)
      /\ req[p].res.status # 200
      /\ count.feedback = 1
      /\ obs[p].session # <<>> )
    => /\ Session[req[p].body.id] = obs[p].session
       /\ User[req[p].user].wellnessMetrics = obs[p].wellnessMetrics
       /\ obs[p].progress # <<>>
            => Progress[ProgressOf(req[p].user)] = obs[p].progress

\* C4: a submitFeedback on a session that is already completed or cancelled
\* does not succeed, and leaves the session, the ProgressRecord and the
\* wellness snapshot unchanged.
C4_TerminalRejected ==
  \A p \in Procs :
    ( /\ FeedbackAnswered(p)
      /\ ~req[p].threw
      /\ obs[p].session # <<>>
      /\ obs[p].session.status \in {"completed", "cancelled"} )
    => /\ req[p].res.status # 200
       /\ Session[req[p].body.id] = obs[p].session

\* C5: in every reachable state and for every TherapySession, progress = 100
\* if and only if status = completed.
C5_ProgressIffCompleted ==
  \A i \in 1..Len(Session) :
    Session[i].progress = 100 <=> Session[i].status = "completed"

\* A session made by create and a completed session exist.
C5_Witness ==
  /\ \E i \in 1..Len(Session) : Session[i].name \in NameInputs
  /\ \E i \in 1..Len(Session) :
       Session[i].status = "completed" /\ Session[i].progress = 100
  /\ \E i \in 1..Len(Session) :
       Session[i].status = "scheduled" /\ Session[i].progress = 0

\* C6: a TherapySession carries feedback only if its status is completed, and
\* no step sets feedback on a session without leaving it completed.
C6_FeedbackOnlyCompleted ==
  \A i \in 1..Len(Session) :
    Session[i].feedback # NoFeedback => Session[i].status = "completed"

\* A session holds the feedback of a submitFeedback.
C6_Witness ==
  \E i \in 1..Len(Session), fb \in FeedbackInputs :
    Session[i].feedback = fb /\ Session[i].status = "completed"

\* C7: a submitFeedback for a session id that does not exist, or that belongs
\* to another account, is answered 404 (the store being reachable), and changes
\* nothing.
C7_NotFound ==
  \A p \in Procs :
    ( /\ FeedbackAnswered(p)
      /\ ~req[p].threw
      /\ FeedbackFilter(req[p].body.id, req[p].user) = 0 )
    => req[p].res.status = 404

\* The appointment notifications of account u
Appointments(u) ==
  {i \in 1..Len(Notification) :
     Notification[i].userId = u /\ Notification[i].type = "appointment"}

\* The sessions account u made through create
Created(u) ==
  {i \in 1..Len(Session) : Session[i].userId = u /\ Session[i].name \in NameInputs}

\* C8: whenever no create is in flight, also after a store failure during a
\* create, an account has as many appointment notifications as sessions made
\* through create.
C8_NotificationPerSession ==
  (\A p \in Procs : req[p].kind = "create" => ~InFlight(p))
    => \A u \in 1..Len(User) :
         Cardinality(Appointments(u)) = Cardinality(Created(u))

\* The normalized form of an e-mail address: lower-cased and trimmed
Normalized(email) == trim(toLowerCase(email))

\* A signup that was answered without the store failing
SignupAnswered(p) ==
  req[p].kind = "signup" /\ req[p].pc = "done" /\ ~req[p].threw

\* C9: no two Account records have the same normalized e-mail, also when
\* signups with the same e-mail (possibly in another letter case) race; of two
\* such signups at most one is answered 201, and every valid signup is
\* answered 201 or with the duplicate-e-mail 400, never with a 500.
C9_EmailUnique ==
  /\ \A i, j \in 1..Len(User) :
       i # j => Normalized(User[i].email) # Normalized(User[j].email)
  /\ \A p \in Procs :
       (SignupAnswered(p) /\ validateSignup(req[p].body))
         => \/ req[p].res.status = 201
            \/ /\ req[p].res.status = 400
               /\ req[p].res.message \in
                    {"User already exists with this email address",
                     "Email address is already registered"}
  /\ \A p, q \in Procs :
       ( /\ p # q
         /\ SignupAnswered(p) /\ SignupAnswered(q)
         /\ Normalized(req[p].body.email) = Normalized(req[q].body.email) )
       => ~(req[p].res.status = 201 /\ req[q].res.status = 201)

\* Two signups with the same address in different letter case raced past the
\* existence check; the insert of the second hit the unique index.
C9_Witness ==
  \E p, q \in Procs :
    /\ SignupAnswered(p) /\ SignupAnswered(q)
    /\ req[p].body.email # req[q].body.email
    /\ Normalized(req[p].body.email) = Normalized(req[q].body.email)
    /\ req[p].res.status = 201
    /\ req[q].res.message = "Email address is already registered"

\* C10: the token a signup returns carries the id, e-mail and account type of
\* the account that signup created, and /auth/me called with a token a signup
\* returned, while it is unexpired and the account active, answers with the
\* account of that id.
C10_TokenIdentity ==
  /\ \A p \in Procs :
       (req[p].kind = "signup" /\ req[p].pc = "done" /\ req[p].res.status = 201)
         => LET t == req[p].res.token
                u == req[p].res.user IN
            /\ u \in 1..Len(User)
            /\ User[u].email = Normalized(req[p].body.email)
            /\ t.userId = u
            /\ t.email = User[u].email
            /\ t.userType = req[p].body.userType
            /\ t.userType = User[u].userType
  /\ \A p \in Procs :
       ( /\ req[p].kind = "me" /\ req[p].pc = "done" /\ ~req[p].threw
         /\ req[p].token \in issued
         /\ now < req[p].token.exp
         /\ User[req[p].token.userId].isActive )
       => /\ req[p].res.status = 200
          /\ req[p].res.user = req[p].token.userId
          /\ User[req[p].res.user].email = req[p].token.email

\* The second of two accounts signed up with an upper-case address, and
\* /auth/me with a signup's token has been answered after time has passed.
C10_Witness ==
  \E p, q \in Procs :
    /\ req[p].kind = "signup" /\ req[p].pc = "done" /\ req[p].res.status = 201
    /\ req[p].res.user = 2
    /\ req[p].body.email # Normalized(req[p].body.email)
    /\ req[q].kind = "me" /\ req[q].pc = "done" /\ req[q].res.status = 200
    /\ req[q].token \in issued
    /\ now > req[q].token.iat

\* C11: the stored credential verifies the account's current password and
\* nothing else: whenever a login for an account's e-mail is answered, after
\* any sequence of logins, profile updates, password changes and feedback
\* submissions, it has succeeded exactly if its password is the one the account
\* holder chose last; and the stored value is a hash that verifies that
\* password, never the plaintext.
C11_CredentialVerifies ==
  [][\A p \in Procs :
       ( /\ req[p].kind = "login"
         /\ req[p].pc \in {"lg_find", "lg_save"}
         /\ req'[p].pc = "done" )
       => LET u == FindOne(User, "email", Normalized(req[p].body.email)) IN
          u # 0 =>
            /\ (req'[p].res.status = 200) <=> (req[p].body.password = cred[u])
            /\ User'[u].password # Plain(cred[u])
            /\ comparePassword(cred[u], User'[u].password)]_vars

\* The response of a refused login
InvalidCredentials ==
  [NoRes EXCEPT !.status = 401, !.message = "Invalid email or password"]

\* C12: a login with an unknown e-mail, a login with a known e-mail and a
\* wrong password, and a login for a known but inactive account are all
\* answered with the same response: status 401 and the one InvalidCredentials
\* message, with no account and no token.
C12_SameRefusal ==
  [][\A p \in Procs :
       ( /\ req[p].kind = "login"
         /\ req[p].pc \in {"lg_find", "lg_save"}
         /\ req'[p].pc = "done" )
       => LET u == FindOne(User, "email", Normalized(req[p].body.email)) IN
          (u = 0 \/ ~User[u].isActive \/ req[p].body.password # cred[u])
            => req'[p].res = InvalidCredentials]_vars

\* Two logins have been refused, one for an e-mail no account has and one for
\* an account's e-mail with a wrong password, and their responses are equal.
C12_Witness ==
  \E p, q \in Procs :
    /\ req[p].kind = "login" /\ req[p].pc = "done"
    /\ req[q].kind = "login" /\ req[q].pc = "done"
    /\ FindOne(User, "email", Normalized(req[p].body.email)) = 0
    /\ LET u == FindOne(User, "email", Normalized(req[q].body.email)) IN
       u # 0 /\ User[u].isActive /\ req[q].body.password # cred[u]
    /\ validateLogin(req[p].body) /\ validateLogin(req[q].body)
    /\ req[p].res = req[q].res
    /\ req[p].res.status = 401

\* The routes behind authenticateToken
AuthKinds == {"me", "profile", "password", "logout", "dashboard", "sessions",
              "feedback", "notifications", "progress", "create", "read"}

\* The four collections
Stores == <<User, Progress, Notification, Session>>

\* A request has arrived in slot p in this step
Arrives(p) == ~InFlight(p) /\ req'[p] # req[p]

\* A login in slot p is answered in this step
LoginAnswered(p) ==
  /\ req[p].kind = "login"
  /\ req[p].pc \in {"lg_find", "lg_save"}
  /\ req'[p].pc = "done"

\* C13: an account with active = false cannot authenticate: a login for it is
\* answered 401 without a token, and a request to a route behind
\* authenticateToken whose token names it (a token issued while it was active)
\* is answered 401 when the account is looked up, with no collection changed.
C13_InactiveRefused ==
  [][\A p \in Procs :
       /\ ( /\ req[p].pc = "auth"
            /\ req'[p].pc # "auth"
            /\ req[p].token.userId \in 1..Len(User)
            /\ ~User[req[p].token.userId].isActive )
          => /\ req'[p].pc = "done"
             /\ req'[p].res = [NoRes EXCEPT !.status = 401,
                                 !.message = "Invalid token or user inactive"]
             /\ Stores' = Stores
       /\ LoginAnswered(p)
          => LET u == FindOne(User, "email", Normalized(req[p].body.email)) IN
             (u # 0 /\ ~User[u].isActive)
               => /\ req'[p].res.status = 401
                  /\ req'[p].res.token = NoToken
                  /\ issued' = issued
                  /\ Stores' = Stores]_vars

\* A feedback sent with the unexpired token of a deactivated account has been
\* answered 401.
C13_Witness ==
  \E p \in Procs :
    /\ req[p].kind = "feedback" /\ req[p].pc = "done"
    /\ req[p].token \in issued
    /\ now < req[p].token.exp
    /\ ~User[req[p].token.userId].isActive
    /\ req[p].res.status = 401
    /\ req[p].res.message = "Invalid token or user inactive"
    /\ \A i \in 1..Len(Session) : Session[i].status = "scheduled"

\* C14: a request to a route behind authenticateToken that carries no token, a
\* malformed or wrongly signed token, or an expired token is answered at once
\* with an error (401 or 403); it is given no account data and no token, and
\* changes no Account, ProgressRecord, TherapySession or Notification.
C14_BadTokenRefused ==
  [][\A p \in Procs :
       ( /\ Arrives(p)
         /\ req'[p].kind \in AuthKinds
         /\ (req'[p].token \notin issued \/ now >= req'[p].token.exp) )
       => /\ req'[p].pc = "done"
          /\ req'[p].res.status \in {401, 403}
          /\ req'[p].res.user = 0
          /\ req'[p].res.token = NoToken
          /\ req'[p].user = 0
          /\ Stores' = Stores]_vars

\* A feedback sent with a token that was issued and has expired has been
\* refused, and no session is completed.
C14_Witness ==
  \E p \in Procs :
    /\ req[p].kind = "feedback" /\ req[p].pc = "done"
    /\ req[p].token \in issued
    /\ now >= req[p].token.exp
    /\ req[p].res.status \in {401, 403}
    /\ req[p].user = 0
    /\ Len(Session) > 0
    /\ \A i \in 1..Len(Session) : Session[i].status = "scheduled"

\* C15: a request refused for its token is answered 401 when the token is
\* missing or expired, and 403 only when the token fails the signature check
\* (a token that is no JWT at all is counted as failing it).
C15_TokenErrorKinds ==
  [][\A p \in Procs :
       ( /\ Arrives(p)
         /\ req'[p].kind \in AuthKinds
         /\ req'[p].pc = "done" )
       => /\ ( \/ req'[p].token = NoToken
               \/ (req'[p].token \in issued /\ now >= req'[p].token.exp) )
             => req'[p].res.status = 401
          /\ req'[p].res.status = 403
               => req'[p].token.sig \in {"bad", "malformed"}]_vars

C17_RateLimited ==
  [][/\ \A o \in Origins : limiter'[o].passed <= 5
     /\ \A p \in Procs :
          ( /\ Arrives(p)
            /\ req'[p].kind \in {"signup", "login"}
            /\ limiter[req'[p].ip].passed >= 5 )
          => /\ req'[p].pc = "done"
             /\ req'[p].res.status = 429
             /\ req'[p].res.user = 0 /\ req'[p].res.token = NoToken
             /\ req'[p].local = NoLocal
             /\ Stores' = Stores]_vars

\* A login of the first origin, sent with the right password, has been
\* throttled after 5 admitted requests, while a login of the other origin is
\* served.
C17_Witness ==
  \E p, q \in Procs :
    /\ req[p].kind = "login" /\ req[p].ip = "ip1" /\ req[p].res.status = 429
    /\ req[p].body.password = cred[1]
    /\ limiter["ip1"].passed = 5 /\ limiter["ip1"].hits > 5
    /\ req[q].kind = "login" /\ req[q].ip = "ip2" /\ req[q].res.status = 200

\* The records of account u
ProgressRecords(u) == {i \in 1..Len(Progress) : Progress[i].userId = u}
Notifications(u) == {i \in 1..Len(Notification) : Notification[i].userId = u}
Sessions(u) == {i \in 1..Len(Session) : Session[i].userId = u}

\* C18: when a patient's signup is answered 201 and its onboarding did not
\* fail, the new account has exactly one ProgressRecord, with completedSessions
\* 0, totalSessions 21, overallProgress in [10,30) and one wellness entry with
\* wellness and energy in 7..9 and sleep in 8..10; exactly one Notification,
\* the welcome, with priority high; and exactly two TherapySessions, both
\* scheduled with progress 0: onboarding ran once, before the response.
C18_PatientOnboarding ==
  \A p \in Procs :
    ( /\ req[p].kind = "signup" /\ req[p].pc = "done" /\ req[p].res.status = 201
      /\ req[p].body.userType = "patient"
      /\ ~req[p].threw )
    => LET u == req[p].res.user IN
       /\ Cardinality(ProgressRecords(u)) = 1
       /\ \A i \in ProgressRecords(u) :
            /\ Progress[i].completedSessions = 0
            /\ Progress[i].totalSessions = 21
            /\ Progress[i].overallProgress[2] = 1
            /\ Progress[i].overallProgress[1] >= 10
            /\ Progress[i].overallProgress[1] < 30
            /\ Len(Progress[i].wellnessScores) = 1
            /\ Progress[i].wellnessScores[1].wellness \in 7..9
            /\ Progress[i].wellnessScores[1].energy \in 7..9
            /\ Progress[i].wellnessScores[1].sleep \in 8..10
       /\ Cardinality(Notifications(u)) = 1
       /\ \A i \in Notifications(u) :
            /\ Notification[i].title = "Welcome to AyurSutra!"
            /\ Notification[i].priority = "high"
       /\ Cardinality(Sessions(u)) = 2
       /\ \A i \in Sessions(u) :
            Session[i].status = "scheduled" /\ Session[i].progress = 0

\* A patient's signup, run while a practitioner's signup was running, has been
\* answered 201 with the largest draws: progress 29, scores 9, 9 and 10.
C18_Witness ==
  \E p, q \in Procs :
    /\ req[p].kind = "signup" /\ req[p].pc = "done" /\ req[p].res.status = 201
    /\ req[p].body.userType = "patient" /\ ~req[p].threw
    /\ req[q].kind = "signup" /\ req[q].body.userType = "practitioner"
    /\ req[q].local.user # 0 /\ req[q].local.user < req[p].res.user
    /\ InFlight(q)
    /\ \E i \in ProgressRecords(req[p].res.user) :
         /\ Progress[i].overallProgress = <<29, 1>>
         /\ Progress[i].wellnessScores =
              << [wellness |-> 9, energy |-> 9, sleep |-> 10] >>

\* The names of the sample sessions of onboarding
SeedNames == {"Initial Consultation", "Abhyanga Therapy"}

\* C19: a practitioner's signup creates a welcome Notification and no
\* ProgressRecord or seed sessions, and no later call of dashboard, progress,
\* sessions, feedback or the notification routes creates a ProgressRecord for a
\* practitioner account: no ProgressRecord and no seed session belongs to a
\* practitioner, and a practitioner whose signup ran without failure has
\* exactly one general Notification, the practitioner welcome.
C19_PractitionerNoProgress ==
  /\ \A u \in 1..Len(User) :
       User[u].userType = "practitioner"
         => /\ ProgressRecords(u) = {}
            /\ \A i \in Sessions(u) : Session[i].name \notin SeedNames
            /\ \A i \in Notifications(u) :
                 Notification[i].type = "general"
                   => Notification[i].title = "Welcome, Practitioner!"
  /\ \A p \in Procs :
       ( /\ req[p].kind = "signup" /\ req[p].pc = "done"
         /\ req[p].res.status = 201
         /\ req[p].body.userType = "practitioner"
         /\ ~req[p].threw )
       => Cardinality({i \in Notifications(req[p].res.user) :
                         Notification[i].type = "general"}) = 1

\* A practitioner has called the dashboard or the progress route, was answered
\* 200, and has no ProgressRecord, while a patient has one.
C19_Witness ==
  \E p \in Procs :
    /\ req[p].kind \in {"dashboard", "progress"}
    /\ req[p].pc = "done" /\ req[p].res.status = 200
    /\ User[req[p].user].userType = "practitioner"
    /\ ProgressRecords(req[p].user) = {}
    /\ Cardinality(Notifications(req[p].user)) = 1
    /\ Len(Progress) > 0

\* C20: onboarding is best-effort: when a store write of the Onboarding
\* Initializer fails, the signup is still answered 201 with the account and a
\* token for it, the Account stays stored, and the failure does not reach the
\* caller (the signup goes on to its login step).
C20_OnboardingBestEffort ==
  \A p \in Procs :
    (req[p].kind = "signup" /\ req[p].threw /\ req[p].caught \in ObPcs)
    => LET u == req[p].local.user IN
       /\ u \in 1..Len(User)
       /\ User[u].email = Normalized(req[p].body.email)
       /\ req[p].pc \in {"su_login", "done"}
       /\ req[p].pc = "done"
            => /\ req[p].res.status = 201
               /\ req[p].res.message = "User created successfully"
               /\ req[p].res.user = u
               /\ req[p].res.token \in issued
               /\ req[p].res.token.userId = u

\* A patient's signup whose welcome notification could not be saved has been
\* answered 201: the account has its ProgressRecord, no notification and no
\* sessions.
C20_Witness ==
  \E p \in Procs :
    /\ req[p].kind = "signup" /\ req[p].pc = "done" /\ req[p].res.status = 201
    /\ req[p].threw /\ req[p].caught = "ob_welcome"
    /\ Cardinality(ProgressRecords(req[p].res.user)) = 1
    /\ Notifications(req[p].res.user) = {}
    /\ Sessions(req[p].res.user) = {}

\* ------------------------------------------------------- lazy default record
\* The steps of GET /api/dashboard and GET /api/progress
LazyStep(p) ==
  \/ DashboardFind(p)
  \/ DashboardSave(p)
  \/ DashboardNotifications(p)
  \/ DashboardSessions(p)
  \/ DashboardUser(p)
  \/ ProgressFind(p)
  \/ ProgressSave(p)

\* The lazy default: the accounts of Cast sign up one at a time and a store
\* call of onboarding may throw; their holders then call the dashboard and the
\* progress route with the tokens they were given, possibly at the same time.
NextLazy ==
  \/ \E p \in Procs, c \in Cast, pw \in PasswordInputs :
       Quiet /\ SignupBegin(p, LocalOrigin, c.email, pw, c.userType)
  \/ \E p \in Procs : SignupStep(p)
  \/ \E p \in Procs : req[p].pc \in ObPcs /\ StoreThrows(p)
  \/ \E p \in Procs, tok \in issued, kind \in {"dashboard", "progress"} :
       NoSignup /\ count.signup = MaxSignups /\ CallBegin(p, kind, tok, 0)
  \/ \E p \in Procs : Authenticate(p)
  \/ \E p \in Procs : LazyStep(p)

SpecLazy == Init /\ [][NextLazy]_vars

\* C21: in every reachable state there is at most one ProgressRecord per
\* patient account, also when the dashboard and the progress route are called
\* at the same time for a patient who has none.
C21_OneProgressPerPatient ==
  \A u \in 1..Len(User) :
    User[u].userType = "patient" => Cardinality(ProgressRecords(u)) <= 1

\* ------------------------------------------------------------ profile patches
\* The profile: the accounts of Cast sign up one at a time; their holders then
\* send profile patches that name the protected fields, log in and read their
\* accounts, possibly at the same time.
NextProfile ==
  \/ \E p \in Procs, c \in Cast, pw \in PasswordInputs :
       Quiet /\ SignupBegin(p, LocalOrigin, c.email, pw, c.userType)
  \/ \E p \in Procs : SignupStep(p)
  \/ \E p \in Procs, tok \in issued, patch \in ProfilePatches :
       NoSignup /\ count.signup = MaxSignups /\ ProfileBegin(p, tok, patch)
  \/ \E p \in Procs : Authenticate(p)
  \/ \E p \in Procs : ProfileUpdate(p)
  \/ \E p \in Procs, c \in Cast, pw \in TryPasswords :
       /\ NoSignup /\ count.signup = MaxSignups /\ count.login < MaxLogins
       /\ LoginBegin(p, LocalOrigin, c.email, pw, FALSE)
  \/ \E p \in Procs : LoginStep(p)
  \/ \E p \in Procs, tok \in issued :
       NoSignup /\ count.signup = MaxSignups /\ MeBegin(p, tok)
  \/ \E p \in Procs : MeFind(p)

SpecProfile == Init /\ [][NextProfile]_vars

\* The fields PUT /api/auth/profile must leave alone
Protected(doc) == <<doc.password, doc.email, doc.createdAt>>

\* C22: PUT /api/auth/profile never changes an account's password hash,
\* e-mail, id or creation time whatever the patch names: the step that
\* answers a profile request leaves those fields of every account as they
\* were and every account at its id, the request is answered 200, and the
\* other fields of the patch are applied.
C22_ProfileStripsProtected ==
  [][\A p \in Procs :
       ( /\ req[p].kind = "profile" /\ req[p].pc = "pf_update"
         /\ req'[p].pc = "done" /\ ~req'[p].threw )
       => /\ Len(User') = Len(User)
          /\ \A u \in 1..Len(User) : Protected(User'[u]) = Protected(User[u])
          /\ req'[p].res.status = 200
          /\ req'[p].res.message = "Profile updated successfully"
          /\ "isActive" \in req[p].body.patch.fields
               => User'[req[p].user].isActive = req[p].body.patch.isActive
     ]_vars

\* A patch that named the password, the e-mail, the id and the creation time
\* together with isActive has been answered 200: the account is inactive and
\* its stored hash still verifies the password its holder chose.
C22_Witness ==
  \E p \in Procs :
    /\ req[p].kind = "profile" /\ req[p].pc = "done" /\ req[p].res.status = 200
    /\ {"password", "email", "_id", "createdAt", "isActive"}
         \subseteq req[p].body.patch.fields
    /\ ~User[req[p].user].isActive
    /\ comparePassword(cred[req[p].user], User[req[p].user].password)
    /\ User[req[p].user].email # req[p].body.patch.email

\* ------------------------------------------------------------ password change
\* Password change: the accounts of Cast sign up one at a time; their holders
\* then change their passwords and log in, possibly at the same time.
NextPassword ==
  \/ \E p \in Procs, c \in Cast, pw \in PasswordInputs :
       Quiet /\ SignupBegin(p, LocalOrigin, c.email, pw, c.userType)
  \/ \E p \in Procs : SignupStep(p)
  \/ \E p \in Procs, tok \in issued, cur \in TryPasswords, new \in NewPasswordsAll :
       /\ NoSignup /\ count.signup = MaxSignups /\ count.password < MaxChanges
       /\ PasswordBegin(p, tok, cur, new)
  \/ \E p \in Procs : Authenticate(p)
  \/ \E p \in Procs : PasswordStep(p)
  \/ \E p \in Procs, c \in Cast, pw \in TryPasswords :
       /\ NoSignup /\ count.signup = MaxSignups /\ count.login < MaxLogins
       /\ LoginBegin(p, LocalOrigin, c.email, pw, FALSE)
  \/ \E p \in Procs : LoginStep(p)

SpecPassword == Init /\ [][NextPassword]_vars

\* C23: PUT /api/auth/change-password with a current password that does not
\* verify against the stored hash is answered 401 and changes no account; with
\* a new password shorter than 6 characters it is answered 400 and changes no
\* account; when it succeeds the stored hash verifies the new password and no
\* longer the old one, and every login that verifies its password afterwards
\* is accepted exactly if its password is the one set last.
C23_ChangePassword ==
  [][\A p \in Procs :
       LET b == req[p].body
           u == req[p].user
           answered == req[p].pc # "done" /\ req'[p].pc = "done" /\ ~req'[p].threw
       IN
       /\ ( /\ req[p].kind = "password" /\ req[p].pc = "cp_find"
            /\ req'[p].pc # "cp_find"
            /\ ~comparePassword(b.currentPassword, User[u].password) )
          => /\ req'[p].pc = "done"
             /\ req'[p].res.status = 401
             /\ req'[p].res.message = "Current password is incorrect"
             /\ User' = User
       /\ ( /\ req[p].kind = "password" /\ req[p].pc = "auth" /\ answered
            /\ UserAdmitted(req[p].token.userId)
            /\ b.currentPassword # "" /\ b.newPassword # ""
            /\ Len(b.newPassword) < 6 )
          => /\ req'[p].res.status = 400
             /\ req'[p].res.message = "New password must be at least 6 characters long"
             /\ User' = User
       /\ (req[p].kind = "password" /\ answered /\ req'[p].res.status = 200)
          => /\ Len(b.newPassword) >= 6
             /\ comparePassword(b.currentPassword, User[u].password)
             /\ comparePassword(b.newPassword, User'[u].password)
             /\ User'[u].password # Plain(b.newPassword)
             /\ b.currentPassword # b.newPassword
                  => ~comparePassword(b.currentPassword, User'[u].password)
             /\ cred'[u] = b.newPassword
       /\ (req[p].kind = "login" /\ req[p].pc = "lg_find" /\ req'[p].pc # "lg_find"
            /\ ~req'[p].threw)
          => LET a == FindOne(User, "email", Normalized(b.email)) IN
             a # 0 => IF b.password = cred[a]
                        THEN req'[p].pc = "lg_save"
                        ELSE req'[p].pc = "done" /\ req'[p].res.status = 401
     ]_vars

\* After a password change from the password of signup to another, a login
\* with the new password has succeeded and a login with the old one was
\* refused.
C23_Witness ==
  \E p, q \in Procs :
    /\ req[p].kind = "login" /\ req[p].pc = "done" /\ req[p].res.status = 200
    /\ req[p].body.password \notin PasswordInputs
    /\ cred[req[p].res.user] = req[p].body.password
    /\ req[q].kind = "login" /\ req[q].pc = "done" /\ req[q].res.status = 401
    /\ req[q].body.email = req[p].body.email
    /\ req[q].body.password \in PasswordInputs

\* ------------------------------------------------------- password in responses
\* The passwords the account holders chose
Passwords == {cred[u] : u \in 1..Len(cred)}

\* The fields of an account other than its password
PublicFields ==
  {"email", "userType", "isActive", "lastLogin", "createdAt", "wellnessMetrics"}

\* C24: no response contains an account's password, plaintext or hash: the
\* account object of every response (signup, login, current account, profile
\* update) has no password field, only the account's other fields, and
\* neither the token nor the message carries a password.
C24_NoPasswordInResponse ==
  \A p \in Procs :
    LET res == req[p].res IN
    /\ "password" \notin DOMAIN res.account
    /\ DOMAIN res.account \subseteq PublicFields
    /\ "password" \notin DOMAIN res.token
    /\ res.message \notin Passwords
    /\ (req[p].pc = "done" /\ res.status \in {200, 201}
         /\ req[p].kind \in {"signup", "login", "profile"})
       => DOMAIN res.account = PublicFields

\* A login and a read of the current account have both been answered 200 with
\* the account, whose hash is stored.
C24_Witness ==
  \E p, q \in Procs :
    /\ req[p].kind = "login" /\ req[p].pc = "done" /\ req[p].res.status = 200
    /\ req[q].kind \in {"me", "profile"} /\ req[q].pc = "done"
    /\ req[q].res.status = 200
    /\ req[p].res.account.email = User[req[p].res.user].email
    /\ req[q].res.account.email = User[req[q].res.user].email
    /\ User[req[q].res.user].password = bcryptHash(cred[req[q].res.user], BcryptRounds)

\* ------------------------------------------------------ notification frame
\* The routes that may create a Notification
CreatingKinds == {"signup", "create", "feedback"}

\* What identifies a notification: everything but its read flag
NotificationCore(n) == <<n.userId, n.title, n.type, n.priority>>

\* C25: Notifications are created only by signup, session creation and
\* feedback submission: a step that adds a Notification is a step of a request
\* to one of those routes, no step of any other request (login, dashboard,
\* notification list, mark-read, profile update, change-password, progress,
\* logout) changes their number, and no step removes or replaces one.
C25_NotificationFrame ==
  [][/\ Len(Notification') >= Len(Notification)
     /\ \A i \in 1..Len(Notification) :
          NotificationCore(Notification'[i]) = NotificationCore(Notification[i])
     /\ Len(Notification') > Len(Notification)
          => \E p \in Procs :
               /\ req[p].kind \in CreatingKinds
               /\ InFlight(p)
               /\ req'[p] # req[p]
     /\ \A p \in Procs :
          (req'[p] # req[p] /\ req'[p].kind \notin CreatingKinds)
            => Len(Notification') = Len(Notification)
    ]_vars

\* A notification has been marked read by its owner while a session's
\* appointment notification and the welcome notifications are stored.
C25_Witness ==
  \E p \in Procs :
    /\ req[p].kind = "read" /\ req[p].pc = "done" /\ req[p].res.status = 200
    /\ Notification[req[p].body.id].read
    /\ \E i \in 1..Len(Notification) : Notification[i].type = "appointment"
    /\ \E i \in 1..Len(Notification) : Notification[i].title = "Welcome to AyurSutra!"

\* ================================================================ the client
\* ------------------------------------------- AuthService (Client Session Cache)
\* getToken(): this.token, else localStorage ayursutra_token
getToken(c) == IF c.token # NoToken THEN c.token ELSE c.storedToken

\* getStoredUser(): this.user, else localStorage ayursutra_user
getStoredUser(c) == IF c.user # NoAccount THEN c.user ELSE c.storedUser

\* storeAuthData(token, user)
storeAuthData(c, token, user) ==
  [c EXCEPT !.token = token, !.user = user,
            !.storedToken = token, !.storedUser = user]

\* clearAuthData()
\* A clearAuthData that removes nothing.
keepAuthData(c) == c

clearAuthData(c) ==
  [c EXCEPT !.token = NoToken, !.user = NoAccount,
            !.storedToken = NoToken, !.storedUser = NoAccount]

\* token.split(".").length: three for a JWT, one for a string that is none
TokenParts(token) == IF token.sig = "malformed" THEN 1 ELSE 3

\* isTokenValid(): the structure check and payload.exp > currentTime.  It
\* changes nothing.
isTokenValid(c, t) ==
  LET token == getToken(c) IN
  /\ token # NoToken
  /\ TokenParts(token) = 3
  /\ token.exp > t

\* AuthService.isAuthenticated(): !!(token && user && this.isTokenValid())
isAuthenticated(c, t) ==
  /\ getToken(c) # NoToken
  /\ getStoredUser(c) # NoAccount
  /\ isTokenValid(c, t)

\* Whether && reached isTokenValid(), and what it returned
Checked(c0, c) ==
  [c EXCEPT !.checked = getToken(c0) # NoToken /\ getStoredUser(c0) # NoAccount,
            !.valid = isTokenValid(c0, now),
            !.checkedToken = IF getStoredUser(c0) # NoAccount
                             THEN getToken(c0) ELSE NoToken]

\* A step of the client in which isTokenValid() does not run
Unchecked(c) ==
  [c EXCEPT !.checked = FALSE, !.valid = FALSE, !.checkedToken = NoToken]

\* apiRequest up to await fetch(url, config): the header is getToken()
Call(c, f) == [c EXCEPT !.calls = @ + 1, !.sent[f] = getToken(c)]

\* apiRequest with !response.ok or a failed fetch: only 401 clears the cache
apiRequestFailed(c, status) ==
  [(IF status = 401 THEN clearAuthData(c) ELSE c)
   EXCEPT !.lastFailure = status, !.failFlip = ~@]

\* ------------------------------------------------- the server, as the client sees it
\* What authenticateToken answers to a header: 200 stands for next()
GateOutcome(token) ==
  IF token = NoToken THEN 401
  ELSE IF ~jwtVerify(token, now) THEN 403
  ELSE IF ~UserAdmitted(token.userId) THEN 401
  ELSE 200

\* The outcomes of a call behind authenticateToken: the gate's answer, a
\* server error, or no response at all (0)
Outcomes(token) == {GateOutcome(token), 500, 0}

\* The user object of a response
AccountOf(u) == [id |-> u, doc |-> DeletePassword(User[u])]

\* The notifications of a response as useAppData formats them
NotifView(u) ==
  { [id |-> i, title |-> Notification[i].title, type |-> Notification[i].type,
     read |-> Notification[i].read] : i \in Notifications(u) }

\* The sessions of GET /api/sessions as useAppData formats them
SessionView(u) ==
  { [id |-> i, name |-> Session[i].name, status |-> Session[i].status,
     progress |-> Session[i].progress] : i \in Sessions(u) }

\* upcomingSessions of GET /api/dashboard
UpcomingView(u) ==
  { v \in SessionView(u) : v.status \in {"scheduled", "in-progress"} }

\* ----------------------------------------------------- useAppData.fetchUserData
\* fetchUserData up to its first await: nothing when the service is not
\* authenticated, else the dashboard call
fetchUserDataStart(c, f) ==
  IF isAuthenticated(c, now)
    THEN [Call(c, f) EXCEPT ![f] = "fu_dashboard",
                            !.fetched = IF f = "op" THEN c.mutated ELSE @]
    ELSE [c EXCEPT ![f] = "idle"]

\* The catch block of fetchUserData: the copies are set to their defaults
fetchUserDataFailed(c, f) ==
  [c EXCEPT !.notifications = {}, !.therapySessions = {}, ![f] = "idle",
            !.fetchOk = IF f = "op" THEN FALSE ELSE @]

\* GET /api/dashboard answered: the lazy default of the server, the copies,
\* then the call of getSessions
DashboardResponse(f) ==
  /\ client[f] = "fu_dashboard"
  /\ \E s \in Outcomes(client.sent[f]) :
       LET u == client.sent[f].userId IN
       IF s = 200
         THEN /\ Progress' =
                   IF NeedsDefault(ProgressOf(u), User[u].userType)
                     THEN Append(Progress,
                            [userId |-> u, overallProgress |-> <<15, 1>>,
                             completedSessions |-> 2,
                             totalSessions |-> DefaultTotalSessions,
                             wellnessScores |-> <<>>])
                     ELSE Progress
              /\ client' = Unchecked(
                   [Call(client, f) EXCEPT ![f] = "fu_sessions",
                                           !.notifications = NotifView(u),
                                           !.therapySessions = UpcomingView(u)])
         ELSE /\ client' = Unchecked(
                   fetchUserDataFailed(apiRequestFailed(client, s), f))
              /\ UNCHANGED Progress
  /\ UNCHANGED <<User, Notification, Session, req, issued, now, count, obs,
                 limiter, cred>>

\* GET /api/sessions answered inside fetchUserData
SessionsResponse(f) ==
  /\ client[f] = "fu_sessions"
  /\ \E s \in Outcomes(client.sent[f]) :
       client' = Unchecked(
         IF s = 200
           THEN [client EXCEPT ![f] = "idle",
                   !.therapySessions = SessionView(client.sent[f].userId)]
           ELSE fetchUserDataFailed(apiRequestFailed(client, s), f))
  /\ UNCHANGED <<User, Progress, Notification, Session, req, issued, now, count,
                 obs, limiter, cred>>

\* ------------------------------------------------------------ App, on load
\* The page is loaded: useAppData's effect calls fetchUserData, then App's
\* effect runs initializeAuth up to getCurrentUser, or to its end when the
\* cache holds no user, no token or a token that is not valid.
Mount ==
  /\ client.init = "unmounted"
  /\ LET c1 == fetchUserDataStart(client, "boot")
         c2 == IF getStoredUser(c1) # NoAccount /\ getToken(c1) # NoToken
                  /\ isTokenValid(c1, now)
               THEN [Call(c1, "init") EXCEPT !.init = "me"]
               ELSE [c1 EXCEPT !.init = "done", !.isInitializing = FALSE]
     IN client' = Checked(client, c2)
  /\ UNCHANGED <<User, Progress, Notification, Session, req, issued, now, count,
                 obs, limiter, cred>>

\* The page is loaded again: localStorage stays, everything else starts over
Reload ==
  /\ client.init # "unmounted"
  /\ client.reloads < MaxReloads
  /\ client' = [InitClient EXCEPT !.storedToken = client.storedToken,
                                  !.storedUser = client.storedUser,
                                  !.reloads = client.reloads + 1]
  /\ UNCHANGED <<User, Progress, Notification, Session, req, issued, now, count,
                 obs, limiter, cred>>

\* localStorage holds a string that is no JWT
TamperStorage ==
  /\ client.init = "unmounted"
  /\ client.storedToken # NoToken
  /\ client.storedToken.sig # "malformed"
  /\ client' = [client EXCEPT !.storedToken = [NoToken EXCEPT !.sig = "malformed"]]
  /\ UNCHANGED <<User, Progress, Notification, Session, req, issued, now, count,
                 obs, limiter, cred>>

\* GET /api/auth/me answered to initializeAuth: getCurrentUser stores the
\* account and App becomes authenticated, or the error reaches App's catch
\* block; finally setIsInitializing(false)
InitMeResponse ==
  /\ client.init = "me"
  /\ \E s \in Outcomes(client.sent.init) :
       client' = Unchecked(
         IF s = 200
           THEN LET a == AccountOf(client.sent.init.userId) IN
                [client EXCEPT !.user = a, !.storedUser = a, !.appUser = a,
                               !.isAuthenticated = TRUE, !.showLanding = FALSE,
                               !.isInitializing = FALSE, !.init = "done"]
           ELSE [clearAuthData(apiRequestFailed(client, s)) EXCEPT
                               !.isAuthenticated = FALSE, !.appUser = NoAccount,
                               !.showLanding = TRUE,
                               !.isInitializing = FALSE, !.init = "done"])
  /\ UNCHANGED <<User, Progress, Notification, Session, req, issued, now, count,
                 obs, limiter, cred>>

\* ------------------------------------------------ the user's operations
\* The user starts an operation: the page has initialized and no other
\* operation of the user is under way
OpBegin(c, kind, arg) ==
  [c EXCEPT !.op = kind, !.opKind = kind, !.opArg = arg,
            !.mutated = FALSE, !.fetched = FALSE, !.fetchOk = TRUE]

CanBegin ==
  /\ client.init = "done"
  /\ client.op = "idle"
  /\ client.calls < MaxClientCalls

\* LoginPage.handleLogin up to await authService.login(...)
ClientLogin ==
  /\ CanBegin
  /\ ~client.isAuthenticated
  /\ client' = Unchecked(Call(OpBegin(client, "login", 0), "op"))
  /\ UNCHANGED <<User, Progress, Notification, Session, req, issued, now, count,
                 obs, limiter, cred>>

\* App.handleAuthSuccess(userData)
handleAuthSuccess(c, userData) ==
  [c EXCEPT !.appUser = userData, !.isAuthenticated = TRUE, !.showLanding = FALSE]

\* POST /api/auth/login answered: the server signs a token for an active
\* account and sets lastLogin; authService.login stores token and user and
\* LoginPage calls onAuthSuccess.  A refused or failed login leaves App alone.
LoginResponse ==
  /\ client.op = "login"
  /\ \/ \E u \in 1..Len(User) :
          /\ User[u].isActive
          /\ LET token == jwtSign(u, User[u].email, User[u].userType, now,
                                  LoginExpiry(FALSE)) IN
             /\ User' = [User EXCEPT ![u].lastLogin = now]
             /\ issued' = issued \cup {token}
             /\ client' = Unchecked(
                  [handleAuthSuccess(
                     storeAuthData(client, token,
                       [id |-> u, doc |-> DeletePassword(User'[u])]),
                     [id |-> u, doc |-> DeletePassword(User'[u])])
                   EXCEPT !.op = "idle"])
     \/ \E s \in {401, 500, 0} :
          /\ client' = Unchecked([apiRequestFailed(client, s) EXCEPT !.op = "idle"])
          /\ UNCHANGED <<User, issued>>
  /\ UNCHANGED <<Progress, Notification, Session, req, now, count, obs, limiter,
                 cred>>

\* App.handleLogout up to await authService.logout(), which calls the server
ClientLogout ==
  /\ CanBegin
  /\ client.isAuthenticated
  /\ client' = Unchecked(Call(OpBegin(client, "logout", 0), "op"))
  /\ UNCHANGED <<User, Progress, Notification, Session, req, issued, now, count,
                 obs, limiter, cred>>

\* POST /api/auth/logout answered or failed: authService.logout clears the
\* cache in its finally block, then App's finally block
LogoutResponse ==
  /\ client.op = "logout"
  /\ \E s \in Outcomes(client.sent.op) :
       client' = Unchecked(
         [clearAuthData(apiRequestFailed(client, s)) EXCEPT
            !.isAuthenticated = FALSE, !.appUser = NoAccount,
            !.showLanding = TRUE, !.op = "idle"])
  /\ UNCHANGED <<User, Progress, Notification, Session, req, issued, now, count,
                 obs, limiter, cred>>

\* refreshData(): fetchUserData called from the page
ClientRefresh ==
  /\ CanBegin
  /\ client.isAuthenticated
  /\ client' = Checked(client,
                 fetchUserDataStart(OpBegin(client, "refresh", 0), "op"))
  /\ UNCHANGED <<User, Progress, Notification, Session, req, issued, now, count,
                 obs, limiter, cred>>

\* useAppData.createSession up to await authService.createSession(...)
ClientCreate ==
  /\ CanBegin
  /\ client.isAuthenticated
  /\ client' = Unchecked(Call(OpBegin(client, "create", 0), "op"))
  /\ UNCHANGED <<User, Progress, Notification, Session, req, issued, now, count,
                 obs, limiter, cred>>

\* The notification POST /api/sessions saves
ScheduledNotification(u) ==
  [userId |-> u, title |-> "Session Scheduled", type |-> "appointment",
   priority |-> "medium", read |-> FALSE]

\* POST /api/sessions answered: the server saves the session and its
\* notification; createSession goes on to await fetchSessions().  A failure
\* is thrown to the caller.
CreateResponse ==
  /\ client.op = "create"
  /\ \E s \in Outcomes(client.sent.op), name \in NameInputs :
       LET u == client.sent.op.userId IN
       IF s = 200
         THEN /\ Session' = Append(Session,
                              NewSession(u, [NoBody EXCEPT !.name = name]))
              /\ Notification' = Append(Notification, ScheduledNotification(u))
              /\ client' = Unchecked(
                   [Call(client, "op") EXCEPT !.op = "fs_sessions",
                                              !.mutated = TRUE, !.fetched = TRUE])
         ELSE /\ client' = Unchecked(
                   [apiRequestFailed(client, s) EXCEPT !.op = "idle"])
              /\ UNCHANGED <<Session, Notification>>
  /\ UNCHANGED <<User, Progress, req, issued, now, count, obs, limiter, cred>>

\* GET /api/sessions answered to fetchSessions (its catch block returns []);
\* createSession goes on to await fetchUserData()
FetchSessionsResponse ==
  /\ client.op = "fs_sessions"
  /\ \E s \in Outcomes(client.sent.op) :
       LET c == IF s = 200
                  THEN [client EXCEPT
                          !.therapySessions = SessionView(client.sent.op.userId)]
                  ELSE [apiRequestFailed(client, s) EXCEPT !.fetchOk = FALSE]
       IN client' = Checked(c, fetchUserDataStart(c, "op"))
  /\ UNCHANGED <<User, Progress, Notification, Session, req, issued, now, count,
                 obs, limiter, cred>>

\* useAppData.submitFeedback up to await authService.updateSessionFeedback,
\* for a session the page shows
ClientFeedback ==
  /\ CanBegin
  /\ client.isAuthenticated
  /\ \E v \in client.therapySessions :
       client' = Unchecked(Call(OpBegin(client, "feedback", v.id), "op"))
  /\ UNCHANGED <<User, Progress, Notification, Session, req, issued, now, count,
                 obs, limiter, cred>>

\* What PUT /api/sessions/:id/feedback writes to the Progress of user u when
\* nothing interleaves
ProgressAfterFeedback(u, body) ==
  LET pi == ProgressOf(u) IN
  IF pi = 0 THEN Progress
  ELSE [Progress EXCEPT ![pi] =
          SaveProgress(@,
            [completedSessions |-> IncrementCompleted(Progress[pi]),
             overallProgress |->
               RecomputeOverall(IncrementCompleted(Progress[pi]),
                                Progress[pi].totalSessions)],
            body)]

\* PUT /api/sessions/:id/feedback answered: the server's writes, then
\* submitFeedback goes on to await fetchUserData().  404 and failures are
\* thrown to the caller.
FeedbackResponse ==
  /\ client.op = "feedback"
  /\ \E s \in Outcomes(client.sent.op), fb \in FeedbackInputs :
       LET u == client.sent.op.userId
           body == [NoBody EXCEPT !.id = client.opArg, !.wellness = fb.wellness,
                                  !.energy = fb.energy, !.sleep = fb.sleep]
           hit == FeedbackFilter(client.opArg, u)
       IN
       IF s = 200 /\ hit # 0
         THEN /\ Session' = [Session EXCEPT ![hit] = FeedbackUpdateDoc(@, body)]
              /\ Progress' = ProgressAfterFeedback(u, body)
              /\ User' = [User EXCEPT ![u].wellnessMetrics = WellnessSnapshot(body)]
              /\ LET c == [client EXCEPT !.mutated = TRUE] IN
                 client' = Checked(c, fetchUserDataStart(c, "op"))
         ELSE /\ client' = Unchecked(
                   [apiRequestFailed(client, IF s = 200 THEN 404 ELSE s)
                    EXCEPT !.op = "idle"])
              /\ UNCHANGED <<Session, Progress, User>>
  /\ UNCHANGED <<Notification, req, issued, now, count, obs, limiter, cred>>

\* useAppData.markNotificationRead up to await
\* authService.markNotificationRead(id), for a notification the page shows
ClientMarkRead ==
  /\ CanBegin
  /\ client.isAuthenticated
  /\ \E n \in client.notifications :
       client' = Unchecked(Call(OpBegin(client, "read", n.id), "op"))
  /\ UNCHANGED <<User, Progress, Notification, Session, req, issued, now, count,
                 obs, limiter, cred>>

\* setNotifications(prev => prev.map(n => n.id === id ? {...n, read: true} : n))
MarkLocal(notifications, id) ==
  { IF n.id = id THEN [n EXCEPT !.read = TRUE] ELSE n : n \in notifications }

\* PUT /api/notifications/:id/read answered: the server sets read, and
\* markNotificationRead updates its copy; its catch block swallows a failure
MarkReadResponse ==
  /\ client.op = "read"
  /\ \E s \in Outcomes(client.sent.op) :
       LET u == client.sent.op.userId
           id == client.opArg
       IN
       IF s = 200 /\ id \in Notifications(u)
         THEN /\ Notification' = [Notification EXCEPT ![id].read = TRUE]
              /\ client' = Unchecked(
                   [client EXCEPT !.op = "idle", !.mutated = TRUE,
                      !.notifications = MarkLocal(client.notifications, id)])
         ELSE /\ client' = Unchecked(
                   [apiRequestFailed(client, IF s = 200 THEN 404 ELSE s)
                    EXCEPT !.op = "idle"])
              /\ UNCHANGED Notification
  /\ UNCHANGED <<User, Progress, Session, req, issued, now, count, obs, limiter,
                 cred>>

\* The steps of fetchUserData, for the one started on load and the one an
\* operation awaits
FetchStep ==
  \/ \E f \in {"boot", "op"} : DashboardResponse(f)
  \/ \E f \in {"boot", "op"} : SessionsResponse(f)

\* The accounts of Cast sign up at the server, one at a time
ServerSignups ==
  \/ \E p \in Procs, c \in Cast, pw \in PasswordInputs :
       Quiet /\ SignupBegin(p, LocalOrigin, c.email, pw, c.userType)
  \/ \E p \in Procs : SignupStep(p)

\* The session: the accounts of Cast sign up at the server; then a browser
\* loads the page, and its user logs in, logs out and reloads the page while
\* time passes, the stored token may be overwritten, and an account may be
\* changed or deactivated from elsewhere with the token of its signup.
NextSession ==
  \/ ServerSignups
  \/ SignedUp /\ Mount
  \/ Reload
  \/ TamperStorage
  \/ InitMeResponse
  \/ FetchStep
  \/ ClientLogin
  \/ LoginResponse
  \/ ClientLogout
  \/ LogoutResponse
  \/ ClientRefresh
  \/ SignedUp /\ client.init # "unmounted" /\ Tick
  \/ \E p \in Procs, tok \in issued, patch \in PatchInputs :
       /\ SignedUp /\ client.init # "unmounted" /\ count.profile < 1
       /\ ProfileBegin(p, tok, patch)
  \/ \E p \in Procs : Authenticate(p)
  \/ \E p \in Procs : ProfileUpdate(p)

SpecSession == Init /\ [][NextSession]_vars

\* Both keys of localStorage and both fields of the service are empty
CacheCleared(c) ==
  /\ c.token = NoToken /\ c.user = NoAccount
  /\ c.storedToken = NoToken /\ c.storedUser = NoAccount

\* C26: isTokenValid() returns true only for a token with three parts whose
\* exp is later than the current time, and when it returns false for a token
\* that is malformed or expired the cache is cleared: after a step of the
\* client in which it ran, either it returned true for such a token or the
\* cache is empty.  It calls no server (it is evaluated inside one step).
C26_IsValidClears ==
  client.checked
    => IF client.valid
         THEN /\ TokenParts(client.checkedToken) = 3
              /\ client.checkedToken.exp > now
         ELSE CacheCleared(client)

\* C27: when the page is loaded with a cached account and an expired token,
\* initializeAuth ends at once (isInitializing false) with App not
\* authenticated, both storage keys removed, and no call made to the server.
C27_ExpiredStartup ==
  ( /\ client.checked /\ client.opKind = "none"
    /\ ~client.valid /\ TokenParts(client.checkedToken) = 3 )
  => /\ client.init = "done"
     /\ ~client.isInitializing
     /\ ~client.isAuthenticated
     /\ client.appUser = NoAccount
     /\ client.calls = 0
     /\ client.storedToken = NoToken
     /\ client.storedUser = NoAccount

\* C28: when the page is loaded with a token that is valid locally, a
\* getCurrentUser that fails (401, 403, server error, no response) leaves the
\* cache empty and App not authenticated, and one that succeeds replaces the
\* cached account by the server's and makes App authenticated with that
\* account; either way initialization is over.
C28_StartupReconciles ==
  [][(client.init = "me" /\ client'.init = "done")
       => /\ ~client'.isInitializing
          /\ IF client'.isAuthenticated
               THEN /\ GateOutcome(client.sent.init) = 200
                    /\ client'.appUser = AccountOf(client.sent.init.userId)
                    /\ client'.user = client'.appUser
                    /\ client'.storedUser = client'.appUser
                    /\ getToken(client') = client.sent.init
               ELSE /\ CacheCleared(client')
                    /\ client'.appUser = NoAccount
                    /\ client'.showLanding
     ]_vars

\* The page was loaded again with a valid token after the account had been
\* made a practitioner elsewhere: App is authenticated with the server's
\* account, which replaced the snapshot cached at login.
C28_Witness ==
  /\ client.reloads = 1 /\ client.init = "done" /\ client.isAuthenticated
  /\ client.appUser.doc.userType = "practitioner"
  /\ client.storedToken.userType = "patient"
  /\ client.storedUser = client.appUser

\* C29: App's authenticated flag is true only while the Client Session Cache
\* holds a token and an account, after any startup, login, logout and calls
\* with any answers of the server.
C29_NoStaleAuthenticated ==
  client.isAuthenticated
    => getToken(client) # NoToken /\ getStoredUser(client) # NoAccount

\* The page in use: the accounts of Cast sign up at the server; then a browser
\* loads the page, its user logs in, refreshes the data, books sessions, gives
\* feedback and marks notifications read, and the server answers or fails.
NextSync ==
  \/ ServerSignups
  \/ SignedUp /\ Mount
  \/ FetchStep
  \/ ClientLogin
  \/ LoginResponse
  \/ ClientRefresh
  \/ ClientCreate
  \/ CreateResponse
  \/ FetchSessionsResponse
  \/ ClientFeedback
  \/ FeedbackResponse
  \/ ClientMarkRead
  \/ MarkReadResponse

SpecSync == Init /\ [][NextSync]_vars

\* C30: when createSession, submitFeedback or markNotificationRead ends after
\* its mutating call succeeded, a re-fetch from the server was issued before
\* it ended, and if no re-fetch failed, the page's notifications and sessions
\* are those of the server.
C30_RefetchAfterMutation ==
  [][( /\ client.op # "idle" /\ client'.op = "idle"
       /\ client'.opKind \in {"create", "feedback", "read"}
       /\ client'.mutated )
       => /\ client'.fetched
          /\ client'.fetchOk
               => /\ client'.notifications = NotifView(client.sent.op.userId)'
                  /\ client'.therapySessions = SessionView(client.sent.op.userId)'
     ]_vars

\* ------------------------------------------- useAppData.fetchSessions, alone
\* fetchSessions() up to await authService.getSessions(): the call is numbered
\* in the order of issue; nothing cancels a call issued before
fetchSessionsBegin ==
  /\ client.init = "done" /\ client.isAuthenticated
  /\ client.issuedN < MaxFetches
  /\ client' = Unchecked(
       [client EXCEPT !.issuedN = @ + 1,
                      !.calls = @ + 1,
                      !.pending = @ \cup {[n |-> client.issuedN + 1,
                                           token |-> getToken(client),
                                           status |-> 0, view |-> {}]}])
  /\ UNCHANGED <<User, Progress, Notification, Session, req, issued, now, count,
                 obs, limiter, cred>>

\* GET /api/sessions handled by the server for a call in flight: the response
\* carries the sessions the account has at that moment
getSessionsServed ==
  /\ \E r \in client.pending :
       /\ r.status = 0
       /\ \E s \in {GateOutcome(r.token), 500} :
            client' = [client EXCEPT !.pending = (@ \ {r}) \cup
                         {[r EXCEPT !.status = s,
                                    !.view = IF s = 200
                                               THEN SessionView(r.token.userId)
                                               ELSE {}]}]
  /\ UNCHANGED <<User, Progress, Notification, Session, req, issued, now, count,
                 obs, limiter, cred>>

\* The response reaches fetchSessions: setTherapySessions(formattedSessions),
\* or its catch block, which sets nothing
getSessionsArrives ==
  /\ \E r \in client.pending :
       /\ r.status # 0
       /\ client' = Unchecked(
            [(IF r.status = 200
                THEN [client EXCEPT !.therapySessions = r.view, !.shown = r.n]
                ELSE apiRequestFailed(client, r.status))
             EXCEPT !.pending = client.pending \ {r}])
  /\ UNCHANGED <<User, Progress, Notification, Session, req, issued, now, count,
                 obs, limiter, cred>>

\* Overlapping reads: the accounts of Cast sign up, a browser loads the page
\* and its user logs in; fetchSessions is called while an earlier call is
\* still in flight, and a session is booked with the token of a signup.
NextStale ==
  \/ ServerSignups
  \/ SignedUp /\ Mount
  \/ ClientLogin
  \/ LoginResponse
  \/ fetchSessionsBegin
  \/ getSessionsServed
  \/ getSessionsArrives
  \/ \E p \in Procs, tok \in issued, name \in NameInputs :
       /\ client.issuedN > 0 /\ Quiet
       /\ CreateBegin(p, tok, name)
  \/ \E p \in Procs : Authenticate(p)
  \/ \E p \in Procs : CreateSave(p)
  \/ \E p \in Procs : CreateNotify(p)

SpecStale == Init /\ [][NextStale]_vars

\* C31: when the response of a fetchSessions call arrives after the response
\* of a call issued later has set the sessions the page shows, it leaves them
\* as they are.
C31_StaleDiscarded ==
  [][\A r \in client.pending \ client'.pending :
        r.n < client.shown
          => client'.therapySessions = client.therapySessions
     ]_vars

\* --------------------------------------------------- AuthService.updateProfile
\* authService.updateProfile(profileData) up to await this.apiRequest(...);
\* the call is independent of the operations of useAppData and of App
ClientProfile ==
  /\ client.init = "done" /\ client.isAuthenticated
  /\ client.profile = "idle"
  /\ client.calls < MaxClientCalls
  /\ client' = Unchecked([Call(client, "profile") EXCEPT !.profile = "sent"])
  /\ UNCHANGED <<User, Progress, Notification, Session, req, issued, now, count,
                 obs, limiter, cred>>

\* PUT /api/auth/profile answered: the server applies the stripped patch, and
\* updateProfile puts response.user in this.user and in ayursutra_user
ClientProfileResponse ==
  /\ client.profile = "sent"
  /\ \E s \in Outcomes(client.sent.profile), patch \in PatchInputs :
       LET u == client.sent.profile.userId IN
       IF s = 200
         THEN /\ User' = [User EXCEPT ![u] = ApplyPatch(@, StripPatch(patch))]
              /\ client' = Unchecked(
                   [client EXCEPT !.profile = "idle",
                      !.user = [id |-> u, doc |-> DeletePassword(User'[u])],
                      !.storedUser = [id |-> u, doc |-> DeletePassword(User'[u])]])
         ELSE /\ client' = Unchecked(
                   [apiRequestFailed(client, s) EXCEPT !.profile = "idle"])
              /\ UNCHANGED User
  /\ UNCHANGED <<Progress, Notification, Session, req, issued, now, count, obs,
                 limiter, cred>>

\* The cache in use: the accounts of Cast sign up, a browser loads the page,
\* its user logs in, saves the profile and logs out; the calls overlap.
NextCache ==
  \/ ServerSignups
  \/ SignedUp /\ Mount
  \/ ClientLogin
  \/ LoginResponse
  \/ ClientLogout
  \/ LogoutResponse
  \/ ClientProfile
  \/ ClientProfileResponse

SpecCache == Init /\ [][NextCache]_vars

\* C32: whenever no call of the client is in flight, the token and the
\* account of the cache are both present or both absent, in the service's
\* fields and in localStorage; a response that arrives after a logout does
\* not put the account back.
C32_StoredTogether ==
  ( /\ client.op = "idle" /\ client.boot = "idle" /\ client.profile = "idle"
    /\ client.init \in {"unmounted", "done"} )
  => /\ (client.token = NoToken) <=> (client.user = NoAccount)
     /\ (client.storedToken = NoToken) <=> (client.storedUser = NoAccount)

\* C33: when a call of the client is answered 401 or 403 by the server, the
\* cache holds no token and no account afterwards.
C33_AuthFailureClears ==
  [][( /\ client'.failFlip # client.failFlip
       /\ client'.lastFailure \in {401, 403} )
       => CacheCleared(client')
     ]_vars

\* The steps of the client that need no action of the user: the effects run
\* on load, and the arrival of a response
Automatic ==
  \/ Mount
  \/ InitMeResponse
  \/ FetchStep
  \/ LoginResponse
  \/ LogoutResponse

\* C34: once a login has succeeded, fetchUserData has been called since, or
\* a step that needs no action of the user is still to come.
C34_PullsAfterLogin ==
  ( /\ client.opKind = "login" /\ client.op = "idle"
    /\ client.isAuthenticated /\ isAuthenticated(client, now) )
  => client.fetched \/ ENABLED Automatic

\* The sessions of account u with status completed
CompletedSessions(u) == {i \in Sessions(u) : Session[i].status = "completed"}

\* C35: while no feedback request is in flight, the completedSessions of a
\* patient's ProgressRecord is the number of the patient's sessions with
\* status completed.
C35_CompletedCount ==
  (\A p \in Procs : InFlight(p) => req[p].kind # "feedback")
  => \A u \in 1..Len(User) :
       (User[u].userType = "patient" /\ ProgressOf(u) # 0)
         => Progress[ProgressOf(u)].completedSessions
              = Cardinality(CompletedSessions(u))

\* C36: every submitFeedback that saves the ProgressRecord leaves
\* overallProgress at least what it was, and between 0 and 100.
C36_ProgressMonotone ==
  [][\A p \in Procs :
       (req[p].pc = "fb_save" /\ req'[p].pc = "fb_user")
       => LET before == Progress[req[p].local.progress].overallProgress
              after == Progress'[req[p].local.progress].overallProgress IN
          /\ RatLeq(before, after)
          /\ RatLeq(<<0, 1>>, after)
          /\ RatLeq(after, <<100, 1>>)]_vars

\* Feedback requests that overlap, with a store that does not fail: the
\* accounts of Cast sign up, then feedback is submitted with their tokens
\* without waiting for the answer to the request before.
NextRace ==
  \/ \E p \in Procs, c \in Cast, pw \in PasswordInputs :
       Quiet /\ SignupBegin(p, LocalOrigin, c.email, pw, c.userType)
  \/ \E p \in Procs : SignupStep(p)
  \/ \E p \in Procs : Authenticate(p)
  \/ \E p \in Procs, tok \in issued, id \in SessionIdInputs,
        fb \in FeedbackInputs : NoSignup /\ FeedbackBegin(p, tok, id, fb)
  \/ \E p \in Procs : FeedbackStep(p)

SpecRace == Init /\ [][NextRace]_vars

\* C37: while no feedback request is in flight, a patient whose
\* ProgressRecord has received a feedback entry has the wellness metrics of
\* the last entry of wellnessScores, each score times 10.
C37_SnapshotIsLast ==
  (\A p \in Procs : InFlight(p) => req[p].kind # "feedback")
  => \A u \in 1..Len(User) :
       LET pi == ProgressOf(u) IN
       (User[u].userType = "patient" /\ pi # 0
          /\ Len(Progress[pi].wellnessScores) > 1)
         => User[u].wellnessMetrics
              = WellnessSnapshot(
                  Progress[pi].wellnessScores[Len(Progress[pi].wellnessScores)])

\* C38: the update of PUT /api/auth/profile leaves the account's userType and
\* isActive as they were, whatever the patch.
C38_ProfileKeepsTypeAndActive ==
  [][\A p \in Procs :
       (req[p].pc = "pf_update" /\ req'[p].pc = "done")
       => /\ User'[req[p].user].userType = User[req[p].user].userType
          /\ User'[req[p].user].isActive = User[req[p].user].isActive]_vars

\* The account that owns a record a handler returned, after the step
OwnerAfter(x) ==
  CASE x.coll = "Progress" -> Progress'[x.id].userId
    [] x.coll = "Notification" -> Notification'[x.id].userId
    [] x.coll = "Session" -> Session'[x.id].userId
    [] x.coll = "User" -> x.id

\* C39: a step of a request authenticated as account a changes no account
\* other than a and no session, notification or progress record of another
\* account, adds no record owned by another account, and when it answers,
\* every record it returns is owned by a.
C39_AccountsIsolated ==
  [][\A p \in Procs :
       ( /\ req[p].kind \in AuthKinds
         /\ req[p].pc \notin {"idle", "done", "auth"}
         /\ req'[p] # req[p] )
       => LET a == req[p].user IN
          /\ Len(User') = Len(User)
          /\ \A b \in 1..Len(User) : b # a => User'[b] = User[b]
          /\ \A i \in 1..Len(Session') :
               IF i <= Len(Session)
                 THEN Session[i].userId # a => Session'[i] = Session[i]
                 ELSE Session'[i].userId = a
          /\ \A i \in 1..Len(Notification') :
               IF i <= Len(Notification)
                 THEN Notification[i].userId # a => Notification'[i] = Notification[i]
                 ELSE Notification'[i].userId = a
          /\ \A i \in 1..Len(Progress') :
               IF i <= Len(Progress)
                 THEN Progress[i].userId # a => Progress'[i] = Progress[i]
                 ELSE Progress'[i].userId = a
          /\ Len(Session') >= Len(Session)
          /\ Len(Notification') >= Len(Notification)
          /\ Len(Progress') >= Len(Progress)
          /\ req'[p].pc = "done"
               => \A x \in req'[p].res.returned : OwnerAfter(x) = a
     ]_vars

\* A practitioner's feedback on a patient's session was answered 404 and left
\* the session as it was, while the patient holds sessions and notifications.
C39_Witness ==
  \E p \in Procs :
    /\ req[p].kind = "feedback" /\ req[p].pc = "done"
    /\ req[p].res.status = 404
    /\ req[p].body.id \in 1..Len(Session)
    /\ req[p].user # 0
    /\ Session[req[p].body.id].userId # req[p].user
    /\ Session[req[p].body.id].status = "scheduled"
    /\ Session[req[p].body.id].feedback = NoFeedback

====
